---- MODULE Spec2Model ----
(***************************************************************************)
(* A model of tools/archive_extractor/archive_extractor.py: the reader of  *)
(* WildStar .index/.archive pairs (class WildStarArchive).                 *)
(*                                                                         *)
(* Both files are sequences of bytes (0..255).  File positions and block   *)
(* offsets are 0-based byte offsets, as in the code.  Text (names, paths,  *)
(* patterns) is a sequence of code points.  The input files keep every     *)
(* 32- and 64-bit field below 2^31, the range of the integers of the       *)
(* checker; Python's own integers are unbounded.                           *)
(***************************************************************************)
EXTENDS Integers, Sequences, FiniteSets, TLC

(***************************************************************************)
(* Magic constants, archive_extractor.py:26-28.                            *)
(***************************************************************************)
PACK_MAGIC == 1262698832
AIDX_MAGIC == 1480870209
AARC_MAGIC == 1129464129

\* FileEntry.is_compressed compares flags with this value.
COMPRESSED_FLAG == 3

(***************************************************************************)
(* Bounds of the model.                                                    *)
(***************************************************************************)
\* Depth of nested _parse_directory calls the model follows; the code's own
\* limit is the interpreter's recursion limit.
MaxDepth == 4
\* Lines the model keeps of what the program printed.
MaxPrinted == 1

(***************************************************************************)
(* Byte sequences and struct.unpack.                                       *)
(***************************************************************************)
Min(a, b) == IF a < b THEN a ELSE b
Max(a, b) == IF a > b THEN a ELSE b

Zeros(n) == [i \in 1..n |-> 0]

\* struct.pack("<I", n) and struct.pack("<Q", n), used to lay out the inputs.
LE32(n) == << n % 256, (n \div 256) % 256, (n \div 65536) % 256,
              (n \div 16777216) % 256 >>
LE64(n) == LE32(n) \o Zeros(4)

\* struct.unpack("<I", b)[0] of exactly 4 bytes.
U32(b) == b[1] + 256 * b[2] + 65536 * b[3] + 16777216 * b[4]
\* struct.unpack("<Q", b)[0] of exactly 8 bytes.
U64(b) == U32(SubSeq(b, 1, 4)) + (U32(SubSeq(b, 5, 8)) * 65536) * 65536

\* f.seek(pos); f.read(n) on a file holding `bytes`: the bytes from pos, at
\* most n of them, none at or past the end of the file.
ReadAt(bytes, pos, n) ==
    IF pos >= Len(bytes) \/ n <= 0 THEN << >>
    ELSE SubSeq(bytes, pos + 1, Min(pos + n, Len(bytes)))

\* Python's b[lo:hi] for lo >= 0 and any hi (a negative hi counts from the end).
Slice(b, lo, hi) ==
    LET h == IF hi < 0 THEN Max(Len(b) + hi, 0) ELSE Min(hi, Len(b))
        l == Min(lo, Len(b))
    IN  IF l >= h THEN << >> ELSE SubSeq(b, l + 1, h)

\* bytes.find(b'\x00', start): the 0-based index of the first NUL at or after
\* start, -1 when there is none.
RECURSIVE FindNul(_, _)
FindNul(b, start) ==
    IF start >= Len(b) THEN -1
    ELSE IF b[start + 1] = 0 THEN start
    ELSE FindNul(b, start + 1)

\* bytes.decode('utf-8', errors='replace') on the bytes the inputs use: ASCII
\* decodes to itself, and a byte that can start no UTF-8 sequence (0xFF) is
\* replaced by U+FFFD.
DecodeByte(c) == IF c < 128 THEN c ELSE 65533
Decode(b) == [i \in 1..Len(b) |-> DecodeByte(b[i])]

\* str.lower() on those code points.
LowerChar(c) == IF c >= 65 /\ c <= 90 THEN c + 32 ELSE c
Lower(s) == [i \in 1..Len(s) |-> LowerChar(s[i])]

\* str.replace("\\", "/").
SlashChar(c) == IF c = 92 THEN 47 ELSE c
ReplaceBackslash(s) == [i \in 1..Len(s) |-> SlashChar(s[i])]

(***************************************************************************)
(* zlib.decompress, for the streams the inputs use: a zlib header, deflate *)
(* blocks of type "stored", and the Adler-32 trailer (what zlib writes at  *)
(* compression level 0).  Bytes after the end of the stream are ignored;   *)
(* a bad header, a bad block or a stream that ends early is zlib.error.    *)
(***************************************************************************)
RECURSIVE Adler(_, _, _, _)
Adler(data, i, a, b) ==
    IF i > Len(data) THEN << b \div 256, b % 256, a \div 256, a % 256 >>
    ELSE LET a2 == (a + data[i]) % 65521
         IN  Adler(data, i + 1, a2, (b + a2) % 65521)

\* The 4 trailer bytes (big-endian Adler-32) of `data`.
Adler32(data) == Adler(data, 1, 1, 0)

ZlibHeaderOk(s) ==
    /\ Len(s) >= 2
    /\ s[1] % 16 = 8
    /\ s[1] \div 16 <= 7
    /\ (s[1] * 256 + s[2]) % 31 = 0
    /\ (s[2] \div 32) % 2 = 0

\* Inflate the stored blocks of s from 0-based position pos, `out` being the
\* output so far.
RECURSIVE InflateStored(_, _, _)
InflateStored(s, pos, out) ==
    IF pos + 1 > Len(s) THEN [ok |-> FALSE, data |-> << >>, end |-> pos]
    ELSE LET h     == s[pos + 1]
             final == h % 2 = 1
             btype == (h \div 2) % 4
         IN  CASE btype = 3 -> [ok |-> FALSE, data |-> << >>, end |-> pos]
               [] btype = 0 ->
                    IF pos + 5 > Len(s)
                    THEN [ok |-> FALSE, data |-> << >>, end |-> pos]
                    ELSE LET len  == s[pos + 2] + 256 * s[pos + 3]
                             nlen == s[pos + 4] + 256 * s[pos + 5]
                         IN  IF len + nlen # 65535 \/ pos + 5 + len > Len(s)
                             THEN [ok |-> FALSE, data |-> << >>, end |-> pos]
                             ELSE LET o2 == out \o SubSeq(s, pos + 6, pos + 5 + len)
                                  IN  IF final
                                      THEN [ok |-> TRUE, data |-> o2,
                                            end |-> pos + 5 + len]
                                      ELSE InflateStored(s, pos + 5 + len, o2)

\* zlib.decompress(s): [ok |-> TRUE, data |-> the bytes] or [ok |-> FALSE]
\* for zlib.error.
ZlibDecompress(s) ==
    IF ~ZlibHeaderOk(s) THEN [ok |-> FALSE, data |-> << >>]
    ELSE LET r == InflateStored(s, 2, << >>)
         IN  IF r.ok /\ ReadAt(s, r.end, 4) = Adler32(r.data)
             THEN [ok |-> TRUE, data |-> r.data]
             ELSE [ok |-> FALSE, data |-> << >>]

\* zlib.compress(data, 0) for data shorter than 65536 bytes: one stored block.
ZlibStored(data) ==
    << 120, 1, 1, Len(data) % 256, Len(data) \div 256,
       (65535 - Len(data)) % 256, (65535 - Len(data)) \div 256 >>
    \o data \o Adler32(data)

(***************************************************************************)
(* The common header of both files and their block tables.                 *)
(***************************************************************************)
\* PackDirectoryHeader.read on 16 bytes.
PackDirectoryHeader(data) ==
    [offset |-> U64(SubSeq(data, 1, 8)), block_size |-> U64(SubSeq(data, 9, 16))]

\* The loop `for _ in range(dir_count): blocks.append(PackDirectoryHeader.read(f))`
\* from file position pos: a read of fewer than 16 bytes makes struct.unpack
\* raise, and the descriptors appended before it stay in the list.
RECURSIVE ReadDirectoryHeaders(_, _, _, _)
ReadDirectoryHeaders(bytes, pos, count, acc) ==
    IF count = 0 THEN [err |-> "none", blocks |-> acc, pos |-> pos]
    ELSE LET data == ReadAt(bytes, pos, 16)
         IN  IF Len(data) < 16
             THEN [err |-> "struct.error", blocks |-> acc, pos |-> pos + Len(data)]
             ELSE ReadDirectoryHeaders(bytes, pos + 16, count - 1,
                                       Append(acc, PackDirectoryHeader(data)))

\* ReadPackHeader checking the version before the magic.
ReadPackHeaderVersionFirst(bytes, what) ==
    LET magic   == ReadAt(bytes, 0, 4)
        version == ReadAt(bytes, 4, 4)
        start   == ReadAt(bytes, 536, 8)
        count   == ReadAt(bytes, 544, 4)
        fail(e, p) == [err |-> e, blocks |-> << >>, pos |-> p, assigned |-> FALSE]
    IN  IF Len(magic) < 4 THEN fail("struct.error", Len(magic))
        ELSE IF Len(version) < 4 THEN fail("struct.error", 4 + Len(version))
        ELSE IF U32(version) # 1
             THEN fail("ValueError: Unsupported " \o what \o " version", 8)
        ELSE IF U32(magic) # PACK_MAGIC
             THEN fail("ValueError: Invalid " \o what \o " magic", 4)
        ELSE IF Len(start) < 8 THEN fail("struct.error", Min(Len(bytes), 544))
        ELSE IF Len(count) < 4 THEN fail("struct.error", Min(Len(bytes), 548))
        ELSE LET r == ReadDirectoryHeaders(bytes, U64(start), U32(count), << >>)
             IN  [err |-> r.err, blocks |-> r.blocks, pos |-> r.pos,
                  assigned |-> TRUE]

\* The part both _parse_index_header and _parse_archive_header start with:
\* magic, version, 528 skipped bytes, table offset, table count, 8 skipped
\* bytes, then the block table.  `what` is "index" or "archive" (the word in
\* the error message).  assigned: whether the block list was reset (the
\* statement `self._..._blocks = []` was reached).
ReadPackHeader(bytes, what) ==
    LET magic   == ReadAt(bytes, 0, 4)
        version == ReadAt(bytes, 4, 4)
        start   == ReadAt(bytes, 536, 8)
        count   == ReadAt(bytes, 544, 4)
        fail(e, p) == [err |-> e, blocks |-> << >>, pos |-> p, assigned |-> FALSE]
    IN  IF Len(magic) < 4 THEN fail("struct.error", Len(magic))
        ELSE IF U32(magic) # PACK_MAGIC
             THEN fail("ValueError: Invalid " \o what \o " magic", 4)
        ELSE IF Len(version) < 4 THEN fail("struct.error", 4 + Len(version))
        ELSE IF U32(version) # 1
             THEN fail("ValueError: Unsupported " \o what \o " version", 8)
        ELSE IF Len(start) < 8 THEN fail("struct.error", Min(Len(bytes), 544))
        ELSE IF Len(count) < 4 THEN fail("struct.error", Min(Len(bytes), 548))
        ELSE LET r == ReadDirectoryHeaders(bytes, U64(start), U32(count), << >>)
             IN  [err |-> r.err, blocks |-> r.blocks, pos |-> r.pos,
                  assigned |-> TRUE]

\* FindAIDX without the `continue` on blocks shorter than 16 bytes.
RECURSIVE FindAIDXAnySize(_, _, _, _)
FindAIDXAnySize(bytes, blocks, i, pos) ==
    IF i > Len(blocks)
    THEN [err |-> "ValueError: AIDX block not found in index", root |-> 0,
          found |-> 0, pos |-> pos]
    ELSE LET off   == blocks[i].offset
             magic == ReadAt(bytes, off, 4)
             root  == ReadAt(bytes, off + 12, 4)
         IN  IF Len(magic) < 4
             THEN [err |-> "struct.error", root |-> 0, found |-> 0,
                   pos |-> off + Len(magic)]
             ELSE IF U32(magic) = AIDX_MAGIC
                  THEN IF Len(root) < 4
                       THEN [err |-> "struct.error", root |-> 0, found |-> i,
                             pos |-> Len(bytes)]
                       ELSE [err |-> "none", root |-> U32(root), found |-> i,
                             pos |-> off + 16]
                  ELSE FindAIDXAnySize(bytes, blocks, i + 1, off + 4)

\* "Find AIDX block": the for/else loop over the index blocks from the i-th.
RECURSIVE FindAIDX(_, _, _, _)
FindAIDX(bytes, blocks, i, pos) ==
    IF i > Len(blocks)
    THEN [err |-> "ValueError: AIDX block not found in index", root |-> 0,
          found |-> 0, pos |-> pos]
    ELSE IF blocks[i].block_size < 16 THEN FindAIDX(bytes, blocks, i + 1, pos)
    ELSE LET off   == blocks[i].offset
             magic == ReadAt(bytes, off, 4)
             root  == ReadAt(bytes, off + 12, 4)
         IN  IF Len(magic) < 4
             THEN [err |-> "struct.error", root |-> 0, found |-> 0,
                   pos |-> off + Len(magic)]
             ELSE IF U32(magic) = AIDX_MAGIC
                  THEN IF Len(root) < 4
                       THEN [err |-> "struct.error", root |-> 0, found |-> i,
                             pos |-> Len(bytes)]
                       ELSE [err |-> "none", root |-> U32(root), found |-> i,
                             pos |-> off + 16]
                  ELSE FindAIDX(bytes, blocks, i + 1, off + 4)

\* _parse_index_header on the index file: the error raised ("none" when it
\* returns), the block list and root block it leaves in the object, and the
\* file position it leaves.
ParseIndexHeader(bytes) ==
    LET h == ReadPackHeader(bytes, "index")
    IN  IF h.err # "none"
        THEN [err |-> h.err, blocks |-> h.blocks, assigned |-> h.assigned,
              root |-> 0, rootSet |-> FALSE, found |-> 0, pos |-> h.pos]
        ELSE LET a == FindAIDX(bytes, h.blocks, 1, h.pos)
             IN  [err |-> a.err, blocks |-> h.blocks, assigned |-> TRUE,
                  root |-> a.root, rootSet |-> a.err = "none",
                  found |-> a.found, pos |-> a.pos]

\* AARCEntry.read on 32 bytes.
AARCEntry(data) ==
    [block_index       |-> U32(SubSeq(data, 1, 4)),
     sha_hash          |-> SubSeq(data, 5, 24),
     uncompressed_size |-> U64(SubSeq(data, 25, 32))]

\* dict item assignment d[k] = v on a dict kept as a function.
DictSet(d, k, v) == [x \in DOMAIN d \cup {k} |-> IF x = k THEN v ELSE d[x]]

\* "Find AARC block": the loop over the archive blocks from the i-th.  Python
\* indexes the block list from 0: table block t is blocks[t + 1] here.
RECURSIVE FindAARC(_, _, _, _)
FindAARC(bytes, blocks, i, pos) ==
    LET res(e, f, n, t, p) ==
            [err |-> e, found |-> f, entries |-> n, table |-> t, pos |-> p]
    IN  IF i > Len(blocks)
        THEN res("ValueError: AARC block not found in archive", 0, 0, 0, pos)
        ELSE IF blocks[i].block_size < 16 THEN FindAARC(bytes, blocks, i + 1, pos)
        ELSE LET off   == blocks[i].offset
                 magic == ReadAt(bytes, off, 4)
                 n     == ReadAt(bytes, off + 8, 4)
                 t     == ReadAt(bytes, off + 12, 4)
             IN  IF Len(magic) < 4 THEN res("struct.error", 0, 0, 0, off + Len(magic))
                 ELSE IF U32(magic) # AARC_MAGIC
                      THEN FindAARC(bytes, blocks, i + 1, off + 4)
                 ELSE IF Len(n) < 4 \/ Len(t) < 4
                      THEN res("struct.error", i, 0, 0, Len(bytes))
                 ELSE IF U32(t) >= Len(blocks)
                      THEN res("IndexError", i, U32(n), U32(t), off + 16)
                 ELSE res("none", i, U32(n), U32(t), off + 16)

\* "Read AARC entries": `count` reads of 32 bytes from pos into the dict; a
\* short read makes AARCEntry.read raise, the entries read before it stay.
RECURSIVE ReadAARCEntries(_, _, _, _)
ReadAARCEntries(bytes, pos, count, table) ==
    IF count = 0 THEN [err |-> "none", table |-> table, pos |-> pos]
    ELSE LET data == ReadAt(bytes, pos, 32)
         IN  IF Len(data) < 32
             THEN [err |-> "struct.error", table |-> table, pos |-> pos + Len(data)]
             ELSE LET e == AARCEntry(data)
                  IN  ReadAARCEntries(bytes, pos + 32, count - 1,
                                      DictSet(table, e.sha_hash, e))

\* ParseArchiveHeader reading the entries from the block that follows the
\* AARC block, whatever table block the sub-header names.
ParseArchiveHeaderNextBlock(bytes) ==
    LET h == ReadPackHeader(bytes, "archive")
        res(e, ta, tbl, f, p) ==
            [err |-> e, blocks |-> h.blocks, assigned |-> h.assigned,
             tableAssigned |-> ta, table |-> tbl, found |-> f, pos |-> p]
    IN  IF h.err # "none" THEN res(h.err, FALSE, << >>, 0, h.pos)
        ELSE LET a == FindAARC(bytes, h.blocks, 1, h.pos)
             IN  IF a.err # "none" THEN res(a.err, FALSE, << >>, a.found, a.pos)
                 ELSE LET r == ReadAARCEntries(bytes, h.blocks[a.found + 1].offset,
                                               a.entries, << >>)
                      IN  res(r.err, TRUE, r.table, a.found, r.pos)

\* _parse_archive_header on the archive file.  tableAssigned: whether
\* `self._aarc_table = {}` was reached.
ParseArchiveHeader(bytes) ==
    LET h == ReadPackHeader(bytes, "archive")
        res(e, ta, tbl, f, p) ==
            [err |-> e, blocks |-> h.blocks, assigned |-> h.assigned,
             tableAssigned |-> ta, table |-> tbl, found |-> f, pos |-> p]
    IN  IF h.err # "none" THEN res(h.err, FALSE, << >>, 0, h.pos)
        ELSE LET a == FindAARC(bytes, h.blocks, 1, h.pos)
             IN  IF a.err # "none" THEN res(a.err, FALSE, << >>, a.found, a.pos)
                 ELSE LET r == ReadAARCEntries(bytes, h.blocks[a.table + 1].offset,
                                               a.entries, << >>)
                      IN  res(r.err, TRUE, r.table, a.found, r.pos)

(***************************************************************************)
(* The file tree.                                                          *)
(***************************************************************************)
\* The string table located with the bytes the record loop reads per record
\* (FileRecordStrideAsRead, below).
\* Bytes one file record is taken to occupy when the string table is located
\* (`num_files * 56`), and bytes the record loop reads per file record
\* (4 + 4 + 4 + 8 + 8 + 20 + 4).
FileRecordStrideAsRead == 4 + 4 + 4 + 8 + 8 + 20 + 4
FILE_RECORD_STRIDE == 56
FILE_RECORD_READ == 52
DIR_RECORD_SIZE == 8

\* "Extract name from string table": find the NUL, slice, decode.
ExtractName(string_data, name_offset) ==
    Decode(Slice(string_data, name_offset, FindNul(string_data, name_offset)))

\* A dict store that leaves a key it already holds as it is.
FilesSetKeepFirst(fs, key, entry) ==
    IF \E i \in 1..Len(fs) : fs[i].key = key
    THEN fs
    ELSE Append(fs, [key |-> key, entry |-> entry])

\* self._files[key] = entry on the insertion-ordered dict, kept as a sequence
\* of [key, entry]: an existing key keeps its place and takes the new entry.
FilesSet(fs, key, entry) ==
    IF \E i \in 1..Len(fs) : fs[i].key = key
    THEN [i \in 1..Len(fs) |->
            IF fs[i].key = key THEN [key |-> key, entry |-> entry] ELSE fs[i]]
    ELSE Append(fs, [key |-> key, entry |-> entry])

\* The key a file record is stored under: full_path.lower().
FileKey(full_path) == Lower(full_path)

\* ReadDirRecords with sub-directory paths that do not end in a slash.
RECURSIVE ReadDirRecordsNoSlash(_, _, _, _, _, _)
ReadDirRecordsNoSlash(bytes, pos, n, string_data, path_prefix, acc) ==
    IF n = 0 THEN [err |-> "none", subdirs |-> acc, pos |-> pos]
    ELSE LET name_offset == ReadAt(bytes, pos, 4)
             next_block  == ReadAt(bytes, pos + 4, 4)
         IN  IF Len(name_offset) < 4 \/ Len(next_block) < 4
             THEN [err |-> "struct.error", subdirs |-> acc,
                   pos |-> Max(pos, Len(bytes))]
             ELSE LET name == ExtractName(string_data, U32(name_offset))
                      full_path == path_prefix \o name
                  IN  ReadDirRecordsNoSlash(bytes, pos + DIR_RECORD_SIZE, n - 1,
                          string_data, path_prefix,
                          Append(acc, [block |-> U32(next_block),
                                       path |-> full_path,
                                       name |-> name]))

\* "Parse directory entries": n records of 8 bytes from pos.  Each element
\* of subdirs is the tuple (next_block, full_path) of the code, with the name
\* the path was made of beside it.
RECURSIVE ReadDirRecords(_, _, _, _, _, _)
ReadDirRecords(bytes, pos, n, string_data, path_prefix, acc) ==
    IF n = 0 THEN [err |-> "none", subdirs |-> acc, pos |-> pos]
    ELSE LET name_offset == ReadAt(bytes, pos, 4)
             next_block  == ReadAt(bytes, pos + 4, 4)
         IN  IF Len(name_offset) < 4 \/ Len(next_block) < 4
             THEN [err |-> "struct.error", subdirs |-> acc,
                   pos |-> Max(pos, Len(bytes))]
             ELSE LET name == ExtractName(string_data, U32(name_offset))
                      full_path == path_prefix \o name \o << 47 >>
                  IN  ReadDirRecords(bytes, pos + DIR_RECORD_SIZE, n - 1,
                          string_data, path_prefix,
                          Append(acc, [block |-> U32(next_block),
                                       path |-> full_path,
                                       name |-> name]))

\* "Parse file entries": n records from pos; entries are the FileEntry
\* objects in the order they are stored into self._files, ats the file
\* position each of them was read from.
RECURSIVE ReadFileRecords(_, _, _, _, _, _, _)
ReadFileRecords(bytes, pos, n, string_data, path_prefix, acc, ats) ==
    IF n = 0 THEN [err |-> "none", entries |-> acc, ats |-> ats, pos |-> pos]
    ELSE LET name_offset == ReadAt(bytes, pos, 4)
             flags       == ReadAt(bytes, pos + 4, 4)
             usize       == ReadAt(bytes, pos + 12, 8)
             csize       == ReadAt(bytes, pos + 20, 8)
             sha_hash    == ReadAt(bytes, pos + 28, 20)
             tail        == ReadAt(bytes, pos + 48, 4)
         IN  IF Len(name_offset) < 4 \/ Len(flags) < 4 \/ Len(usize) < 8
                \/ Len(csize) < 8
             THEN [err |-> "struct.error", entries |-> acc, ats |-> ats,
                   pos |-> Max(pos, Len(bytes))]
             ELSE LET name == ExtractName(string_data, U32(name_offset))
                      full_path == path_prefix \o name
                      entry == [name              |-> name,
                                full_path         |-> full_path,
                                flags             |-> U32(flags),
                                uncompressed_size |-> U64(usize),
                                compressed_size   |-> U64(csize),
                                sha_hash          |-> sha_hash]
                  IN  ReadFileRecords(bytes,
                          pos + 28 + Len(sha_hash) + Len(tail), n - 1,
                          string_data, path_prefix, Append(acc, entry),
                          Append(ats, pos))

\* One call of _parse_directory(block_index, path_prefix), without the calls
\* it makes for the sub-directories: the error it raises, the sub-directory
\* calls it would make, the entries it stored before returning or raising,
\* where it took the string table from, where it read each file record, and
\* the file position it leaves (pos0 is the position it starts with), and
\* whether it got as far as locating the string table.
ParseDirectory(bytes, blocks, block_index, path_prefix, pos0) ==
    LET res(e, nd, nf, sd, en, so, ss, data, p) ==
            [err |-> e, num_dirs |-> nd, num_files |-> nf, subdirs |-> sd,
             entries |-> en, ats |-> << >>, string_table_offset |-> so,
             string_table_size |-> ss, string_data |-> data, pos |-> p,
             located |-> e \notin {"IndexError", "counts: struct.error"}]
    IN  IF block_index >= Len(blocks)
        THEN res("IndexError", 0, 0, << >>, << >>, 0, 0, << >>, pos0)
        ELSE
        LET block     == blocks[block_index + 1]
            num_dirs  == ReadAt(bytes, block.offset, 4)
            num_files == ReadAt(bytes, block.offset + 4, 4)
        IN  IF Len(num_dirs) < 4 \/ Len(num_files) < 4
            THEN [res("counts: struct.error", 0, 0, << >>, << >>, 0, 0,
                      << >>, Max(block.offset, Len(bytes)))
                  EXCEPT !.err = "struct.error"]
            ELSE
            LET entries_start == block.offset + 8
                nd == U32(num_dirs)
                nf == U32(num_files)
                data_size == nd * DIR_RECORD_SIZE + nf * FILE_RECORD_STRIDE
                string_table_offset == entries_start + data_size
                string_table_size == block.block_size - 8 - data_size
                string_data ==
                    IF string_table_size = -1
                    THEN ReadAt(bytes, string_table_offset, Len(bytes))
                    ELSE ReadAt(bytes, string_table_offset, string_table_size)
            IN  IF string_table_size < -1
                THEN res("ValueError: read length", nd, nf, << >>, << >>,
                         string_table_offset, string_table_size, << >>,
                         string_table_offset)
                ELSE
                LET d == ReadDirRecords(bytes, entries_start, nd,
                                        string_data, path_prefix, << >>)
                IN  IF d.err # "none"
                    THEN res(d.err, nd, nf, << >>, << >>, string_table_offset,
                             string_table_size, string_data, d.pos)
                    ELSE
                    LET f == ReadFileRecords(bytes, d.pos, nf,
                                             string_data, path_prefix,
                                             << >>, << >>)
                    IN  [res(f.err, nd, nf,
                             IF f.err = "none" THEN d.subdirs ELSE << >>,
                             f.entries, string_table_offset,
                             string_table_size, string_data, f.pos)
                         EXCEPT !.ats = f.ats]

(***************************************************************************)
(* The input files.  They are laid out the way the code reads them: the    *)
(* header, the block table at offset 556, then the blocks; in a directory  *)
(* block the file records follow each other at the distance the record     *)
(* loop reads them, and the string table starts where the code looks for   *)
(* it.                                                                     *)
(***************************************************************************)
RECURSIVE Concat(_)
Concat(ss) == IF ss = << >> THEN << >> ELSE Head(ss) \o Concat(Tail(ss))

RECURSIVE TableOf(_, _)
TableOf(blocks, off) ==
    IF blocks = << >> THEN << >>
    ELSE LE64(off) \o LE64(Len(Head(blocks)))
         \o TableOf(Tail(blocks), off + Len(Head(blocks)))

PackFile(magic, version, blocks) ==
    LE32(magic) \o LE32(version) \o Zeros(528) \o LE64(556)
    \o LE32(Len(blocks)) \o Zeros(8)
    \o TableOf(blocks, 556 + 16 * Len(blocks)) \o Concat(blocks)

RECURSIVE NameOffset(_, _)
NameOffset(names, i) ==
    IF i = 1 THEN 0 ELSE NameOffset(names, i - 1) + Len(names[i - 1]) + 1

StringTable(names) == Concat([i \in 1..Len(names) |-> names[i] \o << 0 >>])

DirRecordBytes(name_offset, d) == LE32(name_offset) \o LE32(d.child)

FileRecordBytes(name_offset, f) ==
    LE32(name_offset) \o LE32(f.flags) \o LE32(0) \o LE64(f.usize)
    \o LE64(f.csize) \o f.digest \o LE32(f.blk)

DirBlock(dirs, fs) ==
    LET names == [i \in 1..Len(dirs) |-> dirs[i].name]
                 \o [i \in 1..Len(fs) |-> fs[i].name]
    IN  LE32(Len(dirs)) \o LE32(Len(fs))
        \o Concat([i \in 1..Len(dirs) |->
                     DirRecordBytes(NameOffset(names, i), dirs[i])])
        \o Concat([i \in 1..Len(fs) |->
                     FileRecordBytes(NameOffset(names, Len(dirs) + i), fs[i])])
        \o Zeros((FILE_RECORD_STRIDE - FILE_RECORD_READ) * Len(fs))
        \o StringTable(names)

AIDXBlock(root) == LE32(AIDX_MAGIC) \o LE32(1) \o LE32(0) \o LE32(root)

AARCBlock(count, table_block) ==
    LE32(AARC_MAGIC) \o LE32(1) \o LE32(count) \o LE32(table_block)

AARCEntryBytes(e) == LE32(e.block) \o e.digest \o LE64(e.size)

AARCTable(es) == Concat([i \in 1..Len(es) |-> AARCEntryBytes(es[i])])

\* bytes with `new` written over them from 0-based position pos.
Patch(bytes, pos, new) ==
    [i \in 1..Len(bytes) |->
        IF i > pos /\ i <= pos + Len(new) THEN new[i - pos] ELSE bytes[i]]

Digest(k) == [i \in 1..20 |-> k]
Dir(name, child) == [name |-> name, child |-> child]
File(name, flags, k, blk) ==
    [name |-> name, flags |-> flags, usize |-> 0, csize |-> 0,
     digest |-> Digest(k), blk |-> blk]
Entry(block, k) == [block |-> block, digest |-> Digest(k), size |-> 0]

\* Payloads of the archive file.
PayloadHi    == << 104, 105 >>
PayloadHello == << 104, 101, 108, 108, 111, 32, 119, 111, 114, 108, 100 >>
PayloadZ     == ZlibStored(<< 1, 2, 3 >>)
PayloadBad   == << 9, 9, 9, 9 >>

\* The tree  R.x, g\h, a/b/{f.x, z.x, c.x, m.x, o.x}.  f.x is stored raw,
\* z.x compressed, c.x flagged compressed over bytes that are no zlib stream,
\* m.x has a digest the archive does not list, o.x has flags 7 and shares the
\* payload of z.x, and the name g\h holds a backslash.  Every record's
\* trailing block field names block 2, whatever block holds its payload.
BaseIndexBlocks ==
    << AIDXBlock(1),
       DirBlock(<< Dir(<< 97 >>, 2) >>,
                << File(<< 82, 46, 120 >>, 0, 1, 2),
                   File(<< 103, 92, 104 >>, 1, 1, 2) >>),
       DirBlock(<< Dir(<< 98 >>, 3) >>, << >>),
       DirBlock(<< >>,
                << File(<< 102, 46, 120 >>, 0, 2, 2),
                   File(<< 122, 46, 120 >>, 3, 3, 2),
                   File(<< 99, 46, 120 >>, 3, 4, 2),
                   File(<< 109, 46, 120 >>, 0, 5, 2),
                   File(<< 111, 46, 120 >>, 7, 3, 2) >>) >>

BaseArchiveBlocks ==
    << AARCBlock(4, 1),
       AARCTable(<< Entry(2, 1), Entry(3, 2), Entry(4, 3), Entry(5, 4) >>),
       PayloadHi, PayloadHello, PayloadZ, PayloadBad >>

BaseIndex == PackFile(PACK_MAGIC, 1, BaseIndexBlocks)
BaseArchive == PackFile(PACK_MAGIC, 1, BaseArchiveBlocks)

\* A small tree  R.x, a/f.x  whose root names a second sub-directory q in a
\* block the index does not have.
BrokenTreeIndex ==
    PackFile(PACK_MAGIC, 1,
        << AIDXBlock(1),
           DirBlock(<< Dir(<< 97 >>, 2), Dir(<< 113 >>, 9) >>,
                    << File(<< 82, 46, 120 >>, 0, 1, 2) >>),
           DirBlock(<< >>, << File(<< 102, 46, 120 >>, 0, 2, 2) >>) >>)

\* Files without the block that holds the sub-header.
NoAIDXIndex == PackFile(PACK_MAGIC, 1, Tail(BaseIndexBlocks))
NoAARCArchive == PackFile(PACK_MAGIC, 1, Tail(BaseArchiveBlocks))

\* The offset PackFile gives the block with 0-based index k.
RECURSIVE BlockOffset(_, _)
BlockOffset(blocks, k) ==
    IF k = 0 THEN 556 + 16 * Len(blocks)
    ELSE BlockOffset(blocks, k - 1) + Len(blocks[k])

\* A file cut off after its first n bytes.
Truncate(bytes, n) == SubSeq(bytes, 1, n)

\* The index cut off 10 bytes into the digest of the last file record (o.x)
\* of its last block, the directory a/b: the 5 records of that block start
\* 8 bytes into it, 52 bytes apart, the digest 28 bytes into the record.
DigestCutIndex ==
    Truncate(BaseIndex, BlockOffset(BaseIndexBlocks, 3) + 8
                        + 4 * FILE_RECORD_READ + 28 + 10)

\* The archive cut off 8 bytes into the second entry of its AARC table.
EntryCutArchive ==
    Truncate(BaseArchive, BlockOffset(BaseArchiveBlocks, 1) + 32 + 8)

\* An index with two AIDX blocks, naming the roots 4 and 5, behind a block of
\* 8 bytes that begins with the AIDX magic and a second block of 8 bytes.
\* Block 4 is the tree  R.x, a/f.x  (a is block 6); block 5 holds X.x.
TwoRootIndex ==
    PackFile(PACK_MAGIC, 1,
    << LE32(AIDX_MAGIC) \o LE32(1),
       LE32(0) \o LE32(5),
       AIDXBlock(4),
       AIDXBlock(5),
       DirBlock(<< Dir(<< 97 >>, 6) >>, << File(<< 82, 46, 120 >>, 0, 1, 2) >>),
       DirBlock(<< >>, << File(<< 88, 46, 120 >>, 0, 1, 2) >>),
       DirBlock(<< >>, << File(<< 102, 46, 120 >>, 0, 2, 2) >>) >>)

\* An archive whose AARC block is not its first block and names block 3 as
\* its table, with 2 entries; block 3 holds 3 entries, block 2 holds another
\* table, and the last block is a second AARC block.
FarTableArchive ==
    PackFile(PACK_MAGIC, 1,
    << PayloadHi,
       AARCBlock(2, 3),
       AARCTable(<< Entry(4, 1) >>),
       AARCTable(<< Entry(0, 1), Entry(4, 2), Entry(0, 9) >>),
       PayloadHello,
       AARCBlock(1, 2) >>)

\* An index whose root block ends without the NUL of its last name: the
\* string table is  a\0R.x\0q.x , the file record q.x and the directory
\* record (block 2, holding f.x) both name offset 6, the file record R.x
\* names offset 2.
UnterminatedIndex ==
    LET whole == DirBlock(<< Dir(<< 97 >>, 2) >>,
                          << File(<< 82, 46, 120 >>, 0, 1, 2),
                             File(<< 113, 46, 120 >>, 0, 2, 2) >>)
    IN
    PackFile(PACK_MAGIC, 1,
        << AIDXBlock(1),
           Patch(SubSeq(whole, 1, Len(whole) - 1), 8, LE32(6)),
           DirBlock(<< >>, << File(<< 102, 46, 120 >>, 0, 2, 2) >>) >>)

\* The tree  R.x, r.X, a/f.x, a/b/g.x, A/F.x : two records of the root and
\* two records of different blocks share a lower-cased path.
DuplicateIndex ==
    PackFile(PACK_MAGIC, 1,
        << AIDXBlock(1),
           DirBlock(<< Dir(<< 97 >>, 2), Dir(<< 65 >>, 3) >>,
                    << File(<< 82, 46, 120 >>, 0, 1, 2),
                       File(<< 114, 46, 88 >>, 0, 2, 2) >>),
           DirBlock(<< Dir(<< 98 >>, 4) >>,
                    << File(<< 102, 46, 120 >>, 0, 2, 2) >>),
           DirBlock(<< >>, << File(<< 70, 46, 120 >>, 0, 1, 2) >>),
           DirBlock(<< >>, << File(<< 103, 46, 120 >>, 0, 2, 2) >>) >>)

\* A tree whose directory a (block 2) names the root block as its
\* sub-directory b.
CyclicIndex ==
    PackFile(PACK_MAGIC, 1,
        << AIDXBlock(1),
           DirBlock(<< Dir(<< 97 >>, 2) >>,
                    << File(<< 82, 46, 120 >>, 0, 1, 2) >>),
           DirBlock(<< Dir(<< 98 >>, 1) >>, << >>) >>)

\* The archive of BaseArchive with an AARC table that gives digest 2 (of
\* a/b/f.x) the block index 9; the archive has 6 blocks.
FarBlockArchive ==
    PackFile(PACK_MAGIC, 1,
        << AARCBlock(4, 1),
           AARCTable(<< Entry(2, 1), Entry(9, 2), Entry(4, 3), Entry(5, 4) >>),
           PayloadHi, PayloadHello, PayloadZ, PayloadBad >>)

Pair(i, a) == [index |-> i, archive |-> a]

\* The .index/.archive pairs the model opens.
Archives ==
    << Pair(BaseIndex, BaseArchive),
       Pair(BrokenTreeIndex, BaseArchive),
       Pair(Patch(BaseIndex, 0, LE32(PACK_MAGIC + 1)), BaseArchive),
       Pair(Patch(BaseIndex, 4, LE32(2)), BaseArchive),
       Pair(Patch(BaseIndex, 0, LE32(AIDX_MAGIC) \o LE32(2)), BaseArchive),
       Pair(BaseIndex, Patch(BaseArchive, 0, LE32(PACK_MAGIC + 1))),
       Pair(BaseIndex, Patch(BaseArchive, 4, LE32(0))),
       Pair(BaseIndex, Patch(BaseArchive, 0, LE32(AARC_MAGIC) \o LE32(2))),
       Pair(NoAIDXIndex, BaseArchive),
       Pair(BaseIndex, NoAARCArchive),
       Pair(DigestCutIndex, BaseArchive),
       Pair(BaseIndex, EntryCutArchive),
       Pair(TwoRootIndex, FarTableArchive),
       Pair(UnterminatedIndex, BaseArchive),
       Pair(DuplicateIndex, BaseArchive),
       Pair(CyclicIndex, BaseArchive),
       Pair(BaseIndex, FarBlockArchive) >>

\* Paths the callers ask for, and patterns they list:
\* r.x  A/B/F.X  a\b\z.x  a/b/c.x  a/b/m.x  a/b/o.x  g\h  a/f.x  nope  a/b/f.x
QueryPaths ==
    { << 114, 46, 120 >>,
      << 97, 47, 98, 47, 102, 46, 120 >>,
      << 65, 47, 66, 47, 70, 46, 88 >>,
      << 97, 92, 98, 92, 122, 46, 120 >>,
      << 97, 47, 98, 47, 99, 46, 120 >>,
      << 97, 47, 98, 47, 109, 46, 120 >>,
      << 97, 47, 98, 47, 111, 46, 120 >>,
      << 103, 92, 104 >>,
      << 97, 47, 102, 46, 120 >>,
      << 110, 111, 112, 101 >> }

\* The patterns  *  A\**  a/**  a/b/?.X
QueryPatterns ==
    { << 42 >>, << 65, 92, 42, 42 >>, << 97, 47, 42, 42 >>,
      << 97, 47, 98, 47, 63, 46, 88 >> }

(***************************************************************************)
(* The state of one WildStarArchive object and of its callers.             *)
(***************************************************************************)
VARIABLES
    arch,            \* which pair of Archives the object was constructed on
    phase,           \* "new", the steps of open(), "ready" (open returned) or
                     \* "failed" (open raised)
    err,             \* the exception open() raised, "none" if none
    index_file,      \* self._index_file: [state, pos]
    archive_file,    \* self._archive_file: [state, pos]
    index_blocks,    \* self._index_blocks
    archive_blocks,  \* self._archive_blocks
    aarc_table,      \* self._aarc_table: sha_hash -> AARCEntry
    files,           \* self._files, in insertion order
    root_block,      \* self._root_block
    stack,           \* the calls of _parse_directory still to run, next first,
                     \* each with the names of the directories it was
                     \* reached through (chain) and its nesting depth
    walked,          \* history: for every file record the walk stored into
                     \* self._files, in the order of the stores, its
                     \* full_path, its name and the chain of its directory
    parsed,          \* history: for every call of _parse_directory, in the
                     \* order of the calls, what it computed and read
    th,              \* per calling thread: its call in progress and last result
    printed,         \* the last lines printed (at most MaxPrinted)
    earlier,         \* a result of extract_file the caller has kept, with what
                     \* had been printed by then
    source,          \* the bytes of the M3 file an M3Parser or GLTFExporter
                     \* is given
    result           \* what the last call on `source` returned or raised

\* What the WildStarArchive object and its callers do not touch, apart from
\* the caller that keeps a result.
aux == << earlier, source, result >>

vars == << arch, phase, err, index_file, archive_file, index_blocks,
           archive_blocks, aarc_table, files, root_block, stack, walked,
           parsed, th, printed, earlier, source, result >>

Threads == {1, 2}

IndexBytes == Archives[arch].index
ArchiveBytes == Archives[arch].archive

None == [kind |-> "None"]
NoCall == [pc |-> "idle", op |-> "none", arg |-> << >>, val |-> None,
           raised |-> "none"]
NothingKept == [kind |-> "nothing"]
NoResult == [op |-> "none"]

\* __init__, lines 93-101.
Init ==
    /\ arch \in 1..Len(Archives)
    /\ phase = "new"
    /\ err = "none"
    /\ index_file = [state |-> "none", pos |-> 0]
    /\ archive_file = [state |-> "none", pos |-> 0]
    /\ index_blocks = << >>
    /\ archive_blocks = << >>
    /\ aarc_table = << >>
    /\ files = << >>
    /\ root_block = 0
    /\ stack = << >>
    /\ walked = << >>
    /\ parsed = << >>
    /\ th = [t \in Threads |-> NoCall]
    /\ printed = << >>
    /\ earlier = NothingKept
    /\ source = << >>
    /\ result = NoResult

Idle == \A t \in Threads : th[t].pc = "idle"

\* The callers look things up once open() has returned or raised.
Callable == phase \in {"ready", "failed"}

(***************************************************************************)
(* open(), lines 103-110, one action per statement.                        *)
(***************************************************************************)
OpenIndexFile ==
    /\ phase = "new"
    /\ index_file' = [state |-> "open", pos |-> 0]
    /\ phase' = "index_opened"
    /\ UNCHANGED << aux, parsed, arch, err, archive_file, index_blocks, archive_blocks,
                    aarc_table, files, root_block, stack, walked, th, printed >>

OpenArchiveFile ==
    /\ phase = "index_opened"
    /\ archive_file' = [state |-> "open", pos |-> 0]
    /\ phase' = "opened"
    /\ UNCHANGED << aux, parsed, arch, err, index_file, index_blocks, archive_blocks,
                    aarc_table, files, root_block, stack, walked, th, printed >>

ParseIndexHeaderCall ==
    /\ phase = "opened"
    /\ LET r == ParseIndexHeader(IndexBytes)
       IN  /\ index_blocks' = IF r.assigned THEN r.blocks ELSE index_blocks
           /\ root_block' = IF r.rootSet THEN r.root ELSE root_block
           /\ index_file' = [index_file EXCEPT !.pos = r.pos]
           /\ err' = r.err
           /\ phase' = IF r.err = "none" THEN "index_parsed" ELSE "failed"
    /\ UNCHANGED << aux, parsed, arch, archive_file, archive_blocks, aarc_table, files,
                    stack, walked, th, printed >>

ParseArchiveHeaderCall ==
    /\ phase = "index_parsed"
    /\ LET r == ParseArchiveHeader(ArchiveBytes)
       IN  /\ archive_blocks' = IF r.assigned THEN r.blocks ELSE archive_blocks
           /\ aarc_table' = IF r.tableAssigned THEN r.table ELSE aarc_table
           /\ archive_file' = [archive_file EXCEPT !.pos = r.pos]
           /\ err' = r.err
           /\ phase' = IF r.err = "none" THEN "archive_parsed" ELSE "failed"
    /\ UNCHANGED << aux, parsed, arch, index_file, index_blocks, files, root_block, stack,
                    walked, th, printed >>

\* _parse_file_tree, lines 217-220: reset the dict, call _parse_directory
\* on the root block with the empty prefix.
ParseFileTreeCall ==
    /\ phase = "archive_parsed"
    /\ files' = << >>
    /\ walked' = << >>
    /\ parsed' = << >>
    /\ stack' = << [block |-> root_block, path |-> << >>, chain |-> << >>,
                     above |-> << >>, depth |-> 1] >>
    /\ phase' = "walking"
    /\ UNCHANGED << aux, arch, err, index_file, archive_file, index_blocks,
                    archive_blocks, aarc_table, root_block, th, printed >>

RECURSIVE StoreAll(_, _)
StoreAll(fs, entries) ==
    IF entries = << >> THEN fs
    ELSE StoreAll(FilesSet(fs, FileKey(Head(entries).full_path), Head(entries)),
                  Tail(entries))

\* One call of _parse_directory, lines 222-284: it stores its file records,
\* then calls itself on its sub-directories in record order.  A call nested
\* deeper than the recursion limit raises RecursionError; any exception
\* leaves open() through every caller.
ParseDirectoryCall ==
    /\ phase = "walking" /\ stack # << >>
    /\ LET top == Head(stack)
           r == ParseDirectory(IndexBytes, index_blocks, top.block, top.path,
                               index_file.pos)
           calls == [i \in 1..Len(r.subdirs) |->
                       [block |-> r.subdirs[i].block,
                        path |-> r.subdirs[i].path,
                        chain |-> Append(top.chain, r.subdirs[i].name),
                        above |-> Append(top.above, top.block),
                        depth |-> top.depth + 1]]
       IN  IF top.depth > MaxDepth
           THEN /\ err' = "RecursionError"
                /\ phase' = "failed"
                /\ stack' = << >>
                /\ UNCHANGED << files, walked, parsed, index_file >>
           ELSE /\ files' = StoreAll(files, r.entries)
                /\ walked' = walked \o [i \in 1..Len(r.entries) |->
                                          [full_path |-> r.entries[i].full_path,
                                           name |-> r.entries[i].name,
                                           chain |-> top.chain]]
                /\ parsed' = Append(parsed,
                      [block |-> top.block, path_prefix |-> top.path,
                       above |-> top.above, err |-> r.err,
                       num_dirs |-> r.num_dirs, num_files |-> r.num_files,
                       string_table_offset |-> r.string_table_offset,
                       string_table_size |-> r.string_table_size,
                       string_data |-> r.string_data,
                       located |-> r.located,
                       subdirs |-> r.subdirs, entries |-> r.entries,
                       ats |-> r.ats, pos |-> r.pos])
                /\ index_file' = [index_file EXCEPT !.pos = r.pos]
                /\ err' = r.err
                /\ stack' = IF r.err = "none" THEN calls \o Tail(stack)
                            ELSE << >>
                /\ phase' = IF r.err # "none" THEN "failed"
                            ELSE IF calls \o Tail(stack) = << >> THEN "ready"
                            ELSE "walking"
    /\ UNCHANGED << aux, arch, archive_file, index_blocks, archive_blocks,
                    aarc_table, root_block, th, printed >>

\* close(), lines 112-117: each file that was opened is closed.  The action
\* leaves out the calls of close() that change nothing (nothing open).
CloseFile(f) == IF f.state = "none" THEN f ELSE [f EXCEPT !.state = "closed"]

Close ==
    /\ Callable /\ Idle
    /\ index_file.state = "open" \/ archive_file.state = "open"
    /\ index_file' = CloseFile(index_file)
    /\ archive_file' = CloseFile(archive_file)
    /\ UNCHANGED << aux, parsed, arch, phase, err, index_blocks, archive_blocks,
                    aarc_table, files, root_block, stack, walked, th, printed >>

(***************************************************************************)
(* The lookups, lines 286-338.                                             *)
(***************************************************************************)
\* fnmatch.fnmatch(name, pat) for patterns of literals, * and ? (POSIX, where
\* os.path.normcase changes nothing): pat from its i-th character matches
\* name from its j-th.  42 is *, 63 is ?.
RECURSIVE FnMatchFrom(_, _, _, _)
FnMatchFrom(name, j, pat, i) ==
    IF i > Len(pat) THEN j > Len(name)
    ELSE IF pat[i] = 42
         THEN \/ FnMatchFrom(name, j, pat, i + 1)
              \/ (j <= Len(name) /\ FnMatchFrom(name, j + 1, pat, i))
    ELSE /\ j <= Len(name)
         /\ (pat[i] = 63 \/ pat[i] = name[j])
         /\ FnMatchFrom(name, j + 1, pat, i + 1)

FnMatch(name, pat) == FnMatchFrom(name, 1, pat, 1)

\* The normalisation of a query: path.lower().replace("\\", "/").
Normalize(path) == ReplaceBackslash(Lower(path))

RECURSIVE SelectPaths(_, _)
SelectPaths(fs, pattern_lower) ==
    IF fs = << >> THEN << >>
    ELSE LET rest == SelectPaths(Tail(fs), pattern_lower)
             e == Head(fs).entry
         IN  IF FnMatch(Lower(e.full_path), pattern_lower)
             THEN << e.full_path >> \o rest ELSE rest

\* list_files matching against the pattern as it was given.
ListFilesAsGiven(fs, pattern) == SelectPaths(fs, pattern)

\* list_files(pattern), lines 295-299: the list it returns.
ListFilesOf(fs, pattern) == SelectPaths(fs, Normalize(pattern))

\* get_file_info as a loop over the dict that falls through to the last
\* record when no key matches.
GetFileInfoLast(fs, path) ==
    LET key == Normalize(path)
    IN  IF \E i \in 1..Len(fs) : fs[i].key = key
        THEN [kind |-> "FileEntry",
              entry |-> fs[CHOOSE i \in 1..Len(fs) : fs[i].key = key].entry]
        ELSE IF fs = << >> THEN None
        ELSE [kind |-> "FileEntry", entry |-> fs[Len(fs)].entry]

\* get_file_info(path), line 303: dict.get, None when the key is absent.
GetFileInfoOf(fs, path) ==
    LET key == Normalize(path)
    IN  IF \E i \in 1..Len(fs) : fs[i].key = key
        THEN [kind |-> "FileEntry",
              entry |-> fs[CHOOSE i \in 1..Len(fs) : fs[i].key = key].entry]
        ELSE None

\* is_compressed testing the low bit of flags.
IsCompressedBit(entry) == entry.flags % 2 = 1

\* FileEntry.is_compressed, lines 54-55.
IsCompressed(entry) == entry.flags = COMPRESSED_FLAG

\* print(...): the model keeps the last MaxPrinted lines.
Print1(lines, line) ==
    LET all == Append(lines, line)
    IN  IF Len(all) > MaxPrinted
        THEN SubSeq(all, Len(all) - MaxPrinted + 1, Len(all)) ELSE all

Returned(op, arg, val) ==
    [pc |-> "idle", op |-> op, arg |-> arg, val |-> val, raised |-> "none"]
Raised(op, arg, e) ==
    [pc |-> "idle", op |-> op, arg |-> arg, val |-> None, raised |-> e]

ListFiles(t, pattern) ==
    /\ Callable /\ th[t].pc = "idle"
    /\ th' = [th EXCEPT ![t] =
                Returned("list_files", pattern,
                         [kind |-> "list", paths |-> ListFilesOf(files, pattern)])]
    /\ UNCHANGED << aux, parsed, arch, phase, err, index_file, archive_file, index_blocks,
                    archive_blocks, aarc_table, files, root_block, stack,
                    walked, printed >>

\* get_file_info that seeks the index file back to its start first.
GetFileInfoRewinding(t, path) ==
    /\ Callable /\ th[t].pc = "idle"
    /\ th' = [th EXCEPT ![t] =
                Returned("get_file_info", path, GetFileInfoOf(files, path))]
    /\ index_file' = [index_file EXCEPT !.pos = 0]
    /\ UNCHANGED << aux, parsed, arch, phase, err, archive_file, index_blocks,
                    archive_blocks, aarc_table, files, root_block, stack,
                    walked, printed >>

GetFileInfo(t, path) ==
    /\ Callable /\ th[t].pc = "idle"
    /\ th' = [th EXCEPT ![t] =
                Returned("get_file_info", path, GetFileInfoOf(files, path))]
    /\ UNCHANGED << aux, parsed, arch, phase, err, index_file, archive_file, index_blocks,
                    archive_blocks, aarc_table, files, root_block, stack,
                    walked, printed >>

\* self._aarc_table.get(sha_hash), line 319.
AarcGet(table, sha_hash) ==
    IF sha_hash \in DOMAIN table
    THEN [kind |-> "AARCEntry", entry |-> table[sha_hash]]
    ELSE None

\* BlockOf with the record's own block field (2 in every input record) in
\* place of the AARC entry's block index.
BlockOfRecordField(blocks, aarc_entry) == blocks[2 + 1]

\* self._archive_blocks[aarc_entry.block_index], line 325, for an index
\* inside the list (Python counts the blocks from 0).
BlockOf(blocks, aarc_entry) == blocks[aarc_entry.block_index + 1]

\* ExtractLookup with self._aarc_table[sha_hash] in place of .get: a digest
\* the dict does not hold raises (KeyError).
ExtractLookupSubscript(fs, table, blocks, path) ==
    LET info == GetFileInfoOf(fs, path)
    IN  IF info.kind = "None"
        THEN [step |-> "return", line |-> "none"]
        ELSE IF info.entry.sha_hash \notin DOMAIN table
        THEN [step |-> "raise", line |-> "none"]
        ELSE LET e == table[info.entry.sha_hash]
             IN  IF e.block_index >= Len(blocks)
                 THEN [step |-> "raise", line |-> "none"]
                 ELSE [step |-> "read", line |-> "none",
                       entry |-> info.entry, block |-> BlockOf(blocks, e)]

\* extract_file up to the block lookup, lines 314-325: what it does with
\* `path` on the given dicts and block list.  It returns None (printing a
\* warning when the record has no AARC entry), raises IndexError, or goes on
\* to read `block` for `entry`.
ExtractLookup(fs, table, blocks, path) ==
    LET info == GetFileInfoOf(fs, path)
    IN  IF info.kind = "None"
        THEN [step |-> "return", line |-> "none"]
        ELSE LET a == AarcGet(table, info.entry.sha_hash)
             IN  IF a.kind = "None"
                 THEN [step |-> "return",
                       line |-> "Warning: File not in AARC table"]
                 ELSE IF a.entry.block_index >= Len(blocks)
                 THEN [step |-> "raise", line |-> "none"]
                 ELSE [step |-> "read", line |-> "none",
                       entry |-> info.entry, block |-> BlockOf(blocks, a.entry)]

\* extract_file that drops a record from the path dict when the AARC table
\* does not hold its digest.
ExtractFileBeginEvicting(t, path) ==
    /\ Callable /\ th[t].pc = "idle"
    /\ LET x == ExtractLookup(files, aarc_table, archive_blocks, path)
       IN  /\ th' = [th EXCEPT ![t] =
                      CASE x.step = "return" ->
                             Returned("extract_file", path, None)
                        [] x.step = "raise" ->
                             Raised("extract_file", path, "IndexError")
                        [] x.step = "read" ->
                             [pc |-> "seek", op |-> "extract_file",
                              arg |-> path, val |-> None, raised |-> "none",
                              entry |-> x.entry, block |-> x.block]]
           /\ printed' = IF x.line = "none" THEN printed
                         ELSE Print1(printed, [text |-> x.line, path |-> path])
           /\ files' = IF x.line = "none" THEN files
                       ELSE SelectSeq(files,
                                LAMBDA f : f.key # Normalize(path))
    /\ UNCHANGED << aux, parsed, arch, phase, err, index_file, archive_file,
                    index_blocks, archive_blocks, aarc_table, root_block,
                    stack, walked >>

ExtractFileBegin(t, path) ==
    /\ Callable /\ th[t].pc = "idle"
    /\ LET x == ExtractLookup(files, aarc_table, archive_blocks, path)
       IN  /\ th' = [th EXCEPT ![t] =
                      CASE x.step = "return" ->
                             Returned("extract_file", path, None)
                        [] x.step = "raise" ->
                             Raised("extract_file", path, "IndexError")
                        [] x.step = "read" ->
                             [pc |-> "seek", op |-> "extract_file",
                              arg |-> path, val |-> None, raised |-> "none",
                              entry |-> x.entry, block |-> x.block]]
           /\ printed' = IF x.line = "none" THEN printed
                         ELSE Print1(printed, [text |-> x.line, path |-> path])
    /\ UNCHANGED << aux, parsed, arch, phase, err, index_file, archive_file, index_blocks,
                    archive_blocks, aarc_table, files, root_block, stack,
                    walked >>

\* extract_file without its seek: the read starts wherever the file
\* position is.
ExtractFileSeekNone(t) ==
    /\ th[t].pc = "seek"
    /\ th' = [th EXCEPT ![t].pc = "read"]
    /\ UNCHANGED << aux, parsed, arch, phase, err, index_file, archive_file,
                    index_blocks, archive_blocks, aarc_table, files,
                    root_block, stack, walked, printed >>

\* self._archive_file.seek(block.offset), line 326.
ExtractFileSeek(t) ==
    /\ th[t].pc = "seek"
    /\ IF archive_file.state = "open"
       THEN /\ archive_file' = [archive_file EXCEPT !.pos = th[t].block.offset]
            /\ th' = [th EXCEPT ![t].pc = "read"]
       ELSE /\ th' = [th EXCEPT ![t] =
                        Raised("extract_file", th[t].arg,
                               "ValueError: seek of closed file")]
            /\ UNCHANGED archive_file
    /\ UNCHANGED << aux, parsed, arch, phase, err, index_file, index_blocks, archive_blocks,
                    aarc_table, files, root_block, stack, walked, printed >>

\* Decompressed without the try/except around zlib.decompress.
DecompressedUncaught(entry, compressed_data) ==
    IF IsCompressed(entry)
    THEN LET z == ZlibDecompress(compressed_data)
         IN  IF z.ok THEN [val |-> [kind |-> "bytes", data |-> z.data],
                           line |-> "none", raised |-> "none"]
             ELSE [val |-> None, line |-> "none", raised |-> "zlib.error"]
    ELSE [val |-> [kind |-> "bytes", data |-> compressed_data],
          line |-> "none", raised |-> "none"]

\* What extract_file makes of the bytes it read, lines 329-338: the value
\* it returns, the line it prints and the exception it lets out, if any
\* (zlib.error is caught).
Decompressed(entry, compressed_data) ==
    IF IsCompressed(entry)
    THEN LET z == ZlibDecompress(compressed_data)
         IN  IF z.ok THEN [val |-> [kind |-> "bytes", data |-> z.data],
                           line |-> "none", raised |-> "none"]
             ELSE [val |-> None, line |-> "Decompression failed",
                   raised |-> "none"]
    ELSE [val |-> [kind |-> "bytes", data |-> compressed_data],
          line |-> "none", raised |-> "none"]

\* self._archive_file.read(int(block.block_size)) from wherever the file
\* position is, line 327, and the rest of extract_file.
ExtractFileRead(t) ==
    /\ th[t].pc = "read"
    /\ IF archive_file.state = "open"
       THEN LET compressed_data == ReadAt(ArchiveBytes, archive_file.pos,
                                          th[t].block.block_size)
                d == Decompressed(th[t].entry, compressed_data)
            IN  /\ archive_file' = [archive_file EXCEPT
                                      !.pos = @ + Len(compressed_data)]
                /\ th' = [th EXCEPT ![t] =
                            IF d.raised = "none"
                            THEN Returned("extract_file", th[t].arg, d.val)
                            ELSE Raised("extract_file", th[t].arg, d.raised)]
                /\ printed' = IF d.line = "none" THEN printed
                              ELSE Print1(printed, [text |-> d.line,
                                                    path |-> th[t].arg])
       ELSE /\ th' = [th EXCEPT ![t] =
                        Raised("extract_file", th[t].arg,
                               "ValueError: read of closed file")]
            /\ UNCHANGED << archive_file, printed >>
    /\ UNCHANGED << aux, parsed, arch, phase, err, index_file, index_blocks, archive_blocks,
                    aarc_table, files, root_block, stack, walked >>

\* extract_file(path) run from its first statement to its last with no other
\* call in between, lines 314-338: the value it returns (None as well when
\* it would raise).
ExtractFileAlone(fs, table, blocks, bytes, path) ==
    LET x == ExtractLookup(fs, table, blocks, path)
    IN  IF x.step = "read"
        THEN Decompressed(x.entry,
                          ReadAt(bytes, x.block.offset, x.block.block_size)).val
        ELSE None

(***************************************************************************)
(* One caller: the calls of the object follow one another.                 *)
(***************************************************************************)
Next ==
    \/ OpenIndexFile
    \/ OpenArchiveFile
    \/ ParseIndexHeaderCall
    \/ ParseArchiveHeaderCall
    \/ ParseFileTreeCall
    \/ ParseDirectoryCall
    \/ Close
    \/ \E p \in QueryPatterns : ListFiles(1, p)
    \/ \E p \in QueryPaths : GetFileInfo(1, p)
    \/ \E p \in QueryPaths : ExtractFileBegin(1, p)
    \/ ExtractFileSeek(1)
    \/ ExtractFileRead(1)

Spec == Init /\ [][Next]_vars

(***************************************************************************)
(* Two callers: each thread runs extract_file on the one object, and the   *)
(* statements of the two calls interleave.                                 *)
(***************************************************************************)
\* r.x  A/B/F.X  a\b\z.x
ConcurrentPaths ==
    { << 114, 46, 120 >>,
      << 65, 47, 66, 47, 70, 46, 88 >>,
      << 97, 92, 98, 92, 122, 46, 120 >> }

NextConcurrent ==
    \/ OpenIndexFile
    \/ OpenArchiveFile
    \/ ParseIndexHeaderCall
    \/ ParseArchiveHeaderCall
    \/ ParseFileTreeCall
    \/ ParseDirectoryCall
    \/ Close
    \/ \E t \in Threads, p \in ConcurrentPaths : ExtractFileBegin(t, p)
    \/ \E t \in Threads : ExtractFileSeek(t)
    \/ \E t \in Threads : ExtractFileRead(t)

SpecConcurrent == Init /\ [][NextConcurrent]_vars

(***************************************************************************)
(* One caller that keeps a result of extract_file (as extract_to_file      *)
(* does with `data`) and goes on calling.                                  *)
(***************************************************************************)
KeepResult ==
    /\ Callable /\ archive_file.state = "open"
    /\ th[1].pc = "idle" /\ th[1].op = "extract_file"
    /\ earlier' = [kind |-> "kept", arg |-> th[1].arg, val |-> th[1].val,
                   raised |-> th[1].raised, printed |-> printed]
    /\ th' = [th EXCEPT ![1] = NoCall]
    /\ UNCHANGED << source, result, parsed, arch, phase, err, index_file, archive_file,
                    index_blocks, archive_blocks, aarc_table, files,
                    root_block, stack, walked, printed >>

\* r.x  a\b\z.x  a/b/c.x  a/b/m.x
RepeatPaths ==
    { << 114, 46, 120 >>,
      << 97, 92, 98, 92, 122, 46, 120 >>,
      << 97, 47, 98, 47, 99, 46, 120 >>,
      << 97, 47, 98, 47, 109, 46, 120 >> }

NextRepeat ==
    \/ OpenIndexFile
    \/ OpenArchiveFile
    \/ ParseIndexHeaderCall
    \/ ParseArchiveHeaderCall
    \/ ParseFileTreeCall
    \/ ParseDirectoryCall
    \/ KeepResult
    \/ ListFiles(1, << 42 >>)
    \/ \E p \in RepeatPaths : GetFileInfo(1, p)
    \/ \E p \in RepeatPaths : ExtractFileBegin(1, p)
    \/ ExtractFileSeek(1)
    \/ ExtractFileRead(1)

SpecRepeat == Init /\ [][NextRepeat]_vars

(***************************************************************************)
(* tools/m3_extractor/m3_parser.py: the header and the chunk index of an   *)
(* M3 model file.                                                          *)
(***************************************************************************)
\* M3Parser.VALID_MAGIC: b"LDOM", b"43MD", b"MD34".
VALID_MAGIC == << << 76, 68, 79, 77 >>, << 52, 51, 77, 68 >>,
                  << 77, 68, 51, 52 >> >>

\* parse_header_bytes without the test of the magic.
ParseHeaderBytesAnyMagic(data) ==
    IF Len(data) < 8
    THEN [raised |-> "ValueError: Header data too short", val |-> None]
    ELSE [raised |-> "none",
          val |-> [magic        |-> SubSeq(data, 1, 4),
                   version      |-> U32(SubSeq(data, 5, 8)),
                   index_offset |-> IF Len(data) >= 16
                                    THEN U32(SubSeq(data, 9, 12)) ELSE 0,
                   index_count  |-> IF Len(data) >= 16
                                    THEN U32(SubSeq(data, 13, 16)) ELSE 0]]

\* M3Parser.parse_header_bytes(data), lines 41-61: the exception it raises
\* or the M3Header it returns.
ParseHeaderBytes(data) ==
    IF Len(data) < 8
    THEN [raised |-> "ValueError: Header data too short", val |-> None]
    ELSE IF ~(\E i \in 1..Len(VALID_MAGIC) : SubSeq(data, 1, 4) = VALID_MAGIC[i])
    THEN [raised |-> "ValueError: Invalid M3 magic", val |-> None]
    ELSE [raised |-> "none",
          val |-> [magic        |-> SubSeq(data, 1, 4),
                   version      |-> U32(SubSeq(data, 5, 8)),
                   index_offset |-> IF Len(data) >= 16
                                    THEN U32(SubSeq(data, 9, 12)) ELSE 0,
                   index_count  |-> IF Len(data) >= 16
                                    THEN U32(SubSeq(data, 13, 16)) ELSE 0]]

\* M3Parser.parse_header(file) on a file positioned at its start, lines 26-27.
ParseHeader(bytes) == ParseHeaderBytes(ReadAt(bytes, 0, 16))

\* bytes.decode("ascii", errors="replace").
DecodeAscii(b) == [i \in 1..Len(b) |-> IF b[i] < 128 THEN b[i] ELSE 65533]

\* The loop of parse_chunks, lines 82-98, from file position pos: a read of
\* fewer than 16 bytes ends it.
RECURSIVE ReadChunks(_, _, _, _)
ReadChunks(bytes, pos, count, acc) ==
    IF count = 0 THEN acc
    ELSE LET chunk_data == ReadAt(bytes, pos, 16)
         IN  IF Len(chunk_data) < 16 THEN acc
             ELSE ReadChunks(bytes, pos + 16, count - 1,
                     Append(acc, [id         |-> DecodeAscii(SubSeq(chunk_data, 1, 4)),
                                  offset     |-> U32(SubSeq(chunk_data, 5, 8)),
                                  size       |-> U32(SubSeq(chunk_data, 9, 12)),
                                  property_a |-> U32(SubSeq(chunk_data, 13, 16))]))

\* M3Parser.parse_chunks(file), lines 73-100.
ParseChunks(bytes) ==
    LET h == ParseHeader(bytes)
    IN  IF h.raised # "none" THEN [raised |-> h.raised, chunks |-> << >>]
        ELSE IF h.val.index_count = 0 THEN [raised |-> "none", chunks |-> << >>]
        ELSE [raised |-> "none",
              chunks |-> ReadChunks(bytes, h.val.index_offset,
                                    h.val.index_count, << >>)]

(***************************************************************************)
(* tools/m3_extractor/gltf_exporter.py: GLTFExporter.export.  The floats   *)
(* of a vertex and of a bone transform are kept as the bytes they are      *)
(* stored in.                                                              *)
(***************************************************************************)
\* Bone entry size: id(4) + parent_id(4) + transform(64).
BONE_SIZE == 72
VERTEX_SIZE == 12

\* The chunk ids "VPOS", "INDX", "BONE".
VPOS == << 86, 80, 79, 83 >>
INDX == << 73, 78, 68, 88 >>
BONE == << 66, 79, 78, 69 >>

\* struct.unpack("<i", b)[0]: 4 bytes as a signed integer.
S32(b) ==
    IF b[4] < 128 THEN U32(b)
    ELSE 0 - 1 - ((255 - b[1]) + 256 * (255 - b[2]) + 65536 * (255 - b[3])
                  + 16777216 * (255 - b[4]))

\* _find_chunk: the first chunk with the id, None when there is none.
FindChunk(chunks, chunk_id) ==
    IF \E i \in 1..Len(chunks) : chunks[i].id = chunk_id
    THEN [kind |-> "M3Chunk",
          chunk |-> chunks[CHOOSE i \in 1..Len(chunks) :
                              /\ chunks[i].id = chunk_id
                              /\ \A j \in 1..(i - 1) : chunks[j].id # chunk_id]]
    ELSE None

\* The data of a chunk: file.seek(chunk.offset); file.read(chunk.size).
ChunkData(bytes, found) ==
    IF found.kind = "None" THEN << >>
    ELSE ReadAt(bytes, found.chunk.offset, found.chunk.size)

\* The items of `size` bytes that lie whole in data, in order:
\* for i in range(0, len(data) - size + 1, size).
Items(data, size) ==
    [k \in 1..(Len(data) \div size) |->
        SubSeq(data, (k - 1) * size + 1, k * size)]

\* _get_vertices, lines 63-76, and _get_indices, lines 80-92.
GetVertices(bytes, chunks) ==
    Items(ChunkData(bytes, FindChunk(chunks, VPOS)), VERTEX_SIZE)
GetIndices(bytes, chunks) ==
    LET items == Items(ChunkData(bytes, FindChunk(chunks, INDX)), 2)
    IN  [k \in 1..Len(items) |-> items[k][1] + 256 * items[k][2]]

\* _get_bones, lines 111-130: one dict per whole entry of the BONE chunk.
GetBones(bytes, chunks) ==
    LET items == Items(ChunkData(bytes, FindChunk(chunks, BONE)), BONE_SIZE)
    IN  [k \in 1..Len(items) |->
            [id        |-> U32(SubSeq(items[k], 1, 4)),
             parent_id |-> S32(SubSeq(items[k], 5, 8)),
             transform |-> SubSeq(items[k], 9, 72)]]

\* ParentBoneIdx taking the parent id for the position of the parent.
ParentBoneIdxByPosition(bones, parent_id) ==
    IF parent_id >= 0 /\ parent_id < Len(bones) THEN parent_id ELSE -1

\* "Find parent by its ID", lines 314-317: the 0-based position of the first
\* bone with that id, -1 for None.
ParentBoneIdx(bones, parent_id) ==
    IF \E i \in 1..Len(bones) : bones[i].id = parent_id
    THEN (CHOOSE i \in 1..Len(bones) :
             /\ bones[i].id = parent_id
             /\ \A j \in 1..(i - 1) : bones[j].id # parent_id) - 1
    ELSE -1

\* The 0-based positions idx < n, in order, at which keep is TRUE.
RECURSIVE Positions(_, _, _)
Positions(keep, idx, n) ==
    IF idx >= n THEN << >>
    ELSE (IF keep[idx] THEN << idx >> ELSE << >>) \o Positions(keep, idx + 1, n)

\* root_indices and children_map.get(idx, []), lines 306-321.
RootIndices(bones) ==
    LET is_root == [idx \in 0..(Len(bones) - 1) |->
                       bones[idx + 1].parent_id = -1]
    IN  Positions(is_root, 0, Len(bones))
ChildIndices(bones, parent) ==
    LET is_child == [idx \in 0..(Len(bones) - 1) |->
                        /\ bones[idx + 1].parent_id # -1
                        /\ ParentBoneIdx(bones, bones[idx + 1].parent_id) = parent]
    IN  Positions(is_child, 0, Len(bones))

\* Node(mesh=0, name="mesh_0"), and the joint node of bone idx, lines 326-336.
\* Node indices count from 0; the joints start at index 1.
\* An optional field holds None, IntVal(n) or ListVal(items).
IntVal(n) == [kind |-> "int", val |-> n]
ListVal(items) == [kind |-> "list", items |-> items]

MeshNode(skin) == [name |-> << "mesh_", 0 >>, mesh |-> IntVal(0), skin |-> skin,
                   children |-> None]
JointNode(bones, idx) ==
    LET child_indices == ChildIndices(bones, idx)
        child_node_indices ==
            [k \in 1..Len(child_indices) |-> child_indices[k] + 1]
    IN  [name |-> << "joint_", bones[idx + 1].id >>, mesh |-> None, skin |-> None,
         children |-> IF child_node_indices # << >>
                      THEN ListVal(child_node_indices) ELSE None]

\* export refusing a source only when it has neither vertices nor indices.
ExportUnlessNoMeshAtAll(bytes, include_skeleton) ==
    LET c == ParseChunks(bytes)
        vertices == GetVertices(bytes, c.chunks)
        indices == GetIndices(bytes, c.chunks)
    IN  IF c.raised # "none" THEN [raised |-> c.raised, gltf |-> None]
        ELSE IF vertices = << >> /\ indices = << >>
        THEN [raised |-> "ValueError: No mesh data found in M3 file",
              gltf |-> None]
        ELSE [raised |-> "none",
              gltf |-> [nodes  |-> << MeshNode(None) >>,
                        skins  |-> << >>,
                        scenes |-> << [nodes |-> << 0 >>] >>,
                        scene  |-> 0]]

\* GLTFExporter.export(output_path, include_skeleton), lines 215-391 and
\* 565-574, on a source of the given bytes: the exception it raises, or the
\* nodes, skins and scenes of the GLTF2 object it saves.
Export(bytes, include_skeleton) ==
    LET c == ParseChunks(bytes)
        vertices == GetVertices(bytes, c.chunks)
        indices == GetIndices(bytes, c.chunks)
        bones == IF include_skeleton THEN GetBones(bytes, c.chunks) ELSE << >>
        root_indices == RootIndices(bones)
    IN  IF c.raised # "none" THEN [raised |-> c.raised, gltf |-> None]
        ELSE IF vertices = << >> \/ indices = << >>
        THEN [raised |-> "ValueError: No mesh data found in M3 file",
              gltf |-> None]
        ELSE IF bones # << >> /\ include_skeleton
        THEN [raised |-> "none",
              gltf |->
                [nodes  |-> << MeshNode(IntVal(0)) >>
                            \o [k \in 1..Len(bones) |-> JointNode(bones, k - 1)],
                 skins  |-> << [joints   |-> [k \in 1..Len(bones) |-> k],
                                skeleton |-> IF root_indices # << >>
                                             THEN 1 + root_indices[1] ELSE 1] >>,
                 scenes |-> << [nodes |-> << 0 >>
                                  \o [k \in 1..Len(root_indices) |->
                                         root_indices[k] + 1]] >>,
                 scene  |-> 0]]
        ELSE [raised |-> "none",
              gltf |-> [nodes  |-> << MeshNode(None) >>,
                        skins  |-> << >>,
                        scenes |-> << [nodes |-> << 0 >>] >>,
                        scene  |-> 0]]

(***************************************************************************)
(* The M3 sources the model parses and exports.                            *)
(***************************************************************************)
\* struct.pack("<i", n) for n >= -2^31.
SLE32(n) ==
    IF n >= 0 THEN LE32(n)
    ELSE LET m == LE32(0 - 1 - n) IN [i \in 1..4 |-> 255 - m[i]]

BoneBytes(bone) == LE32(bone.id) \o SLE32(bone.parent_id) \o Zeros(64)

ChunkBytes(id, offset, size, property_a) ==
    id \o LE32(offset) \o LE32(size) \o LE32(property_a)

\* An M3 file laid out as tests/test_gltf_exporter.py lays it out: header,
\* the chunk headers VPOS, INDX, BONE, then nv vertices, ni indices and the
\* bone entries, the last `cut` bytes of the file left out.
M3File(nv, ni, bones, cut) ==
    LET vertex_data == Zeros(VERTEX_SIZE * nv)
        index_data == Concat([k \in 1..ni |-> << k - 1, 0 >>])
        bone_data == Concat([k \in 1..Len(bones) |-> BoneBytes(bones[k])])
        all == << 76, 68, 79, 77 >> \o LE32(1) \o LE32(16) \o LE32(3)
               \o ChunkBytes(VPOS, 64, Len(vertex_data), 0)
               \o ChunkBytes(INDX, 64 + Len(vertex_data), Len(index_data), 0)
               \o ChunkBytes(BONE, 64 + Len(vertex_data) + Len(index_data),
                             Len(bone_data), Len(bones))
               \o vertex_data \o index_data \o bone_data
    IN  SubSeq(all, 1, Len(all) - cut)

Bone(id, parent_id) == [id |-> id, parent_id |-> parent_id]

\* Lists of one, two and three bones: ids in and out of file order, an id
\* used twice, parents that are a bone, -1, or no bone of the file.
ParentIds == {-1, 0, 1, 5}
BoneLists ==
    {<< Bone(i, p) >> : i \in {0, 5}, p \in ParentIds \cup {-2}}
    \cup {<< Bone(ids[1], p1), Bone(ids[2], p2) >> :
             ids \in {<< 0, 1 >>, << 1, 0 >>, << 5, 5 >>},
             p1 \in ParentIds, p2 \in ParentIds}
    \cup {<< Bone(0, p1), Bone(1, p2), Bone(2, p3) >> :
             p1 \in {-1, 2}, p2 \in {-1, 0, 2}, p3 \in {-1, 0, 1, 2}}

\* Header data of 0 to 16 bytes: magics that are accepted and that are not,
\* versions, and what follows them.
HeaderMagics ==
    { << 76, 68, 79, 77 >>, << 52, 51, 77, 68 >>, << 77, 68, 51, 52 >>,
      << 108, 100, 111, 109 >>, << 77, 79, 68, 76 >>, << 80, 65, 67, 75 >>,
      << 0, 0, 0, 0 >> }
HeaderData ==
    {m \o v \o r : m \in HeaderMagics,
                   v \in {LE32(0), LE32(1), << 4, 3, 2, 1 >>},
                   r \in {<< >>, LE32(16), LE32(16) \o LE32(0)}}
    \cup {<< >>, << 76, 68, 79, 77, 1, 0, 0 >>, << 80, 65, 67, 75, 1 >>}

Sources ==
    HeaderData
    \cup {M3File(1, 3, bones, 0) : bones \in BoneLists}
    \cup { M3File(1, 3, << >>, 0),
           M3File(0, 3, << Bone(0, -1) >>, 0),
           M3File(1, 0, << Bone(0, -1) >>, 0),
           M3File(1, 3, << Bone(0, -1), Bone(1, 0) >>, 10) }

\* A source is chosen; no archive is opened.
InitM3 ==
    /\ arch = 1
    /\ phase = "new"
    /\ err = "none"
    /\ index_file = [state |-> "none", pos |-> 0]
    /\ archive_file = [state |-> "none", pos |-> 0]
    /\ index_blocks = << >>
    /\ archive_blocks = << >>
    /\ aarc_table = << >>
    /\ files = << >>
    /\ root_block = 0
    /\ stack = << >>
    /\ walked = << >>
    /\ parsed = << >>
    /\ th = [t \in Threads |-> NoCall]
    /\ printed = << >>
    /\ earlier = NothingKept
    /\ source \in Sources
    /\ result = NoResult

archive == << arch, phase, err, index_file, archive_file, index_blocks,
              archive_blocks, aarc_table, files, root_block, stack, walked,
              parsed, th, printed, earlier >>

\* M3Parser().parse_header_bytes(source).
ParseHeaderBytesCall ==
    /\ LET r == ParseHeaderBytes(source)
       IN  result' = [op |-> "parse_header_bytes", raised |-> r.raised,
                      val |-> r.val]
    /\ UNCHANGED << archive, source >>

\* GLTFExporter(io.BytesIO(source)).export(path, include_skeleton).
ExportCall(include_skeleton) ==
    /\ LET r == Export(source, include_skeleton)
       IN  result' = [op |-> "export", include_skeleton |-> include_skeleton,
                      raised |-> r.raised, gltf |-> r.gltf]
    /\ UNCHANGED << archive, source >>

NextM3 ==
    \/ ParseHeaderBytesCall
    \/ \E include_skeleton \in BOOLEAN : ExportCall(include_skeleton)

SpecM3 == InitM3 /\ [][NextM3]_vars

(***************************************************************************)
(* tools/m3_extractor/m3_skeleton.py: M3SkeletonExtractor._parse and       *)
(* Skeleton.get_hierarchy_depth.  Of a bone the model keeps index and      *)
(* parent_id; the matrices and the position do not decide a branch.        *)
(***************************************************************************)
\* Iterations of the loop of get_hierarchy_depth the model follows in one
\* call.
MaxLoop == 6

MAGIC_LDOM == 1297040460
HEADER_SIZE == 1584
BONE_POINTER_OFFSET == 384
BONE_STRUCT_SIZE == 352
BONE_PARENT_ID_OFFSET == 4

\* struct.unpack("<h", b)[0] and struct.unpack("<q", b)[0].
S16(b) ==
    IF b[2] < 128 THEN b[1] + 256 * b[2]
    ELSE b[1] + 256 * b[2] - 65536
S64(b) ==
    IF b[8] < 128 THEN U64(b)
    ELSE 0 - 1 - U64([i \in 1..8 |-> 255 - b[i]])

\* The bones _parse leaves in self._skeleton, lines 118-206: none when the
\* magic is not LDOM, when the bone pointer gives no bones or bones outside
\* the file, and when a read or a seek raises.
ParseSkeleton(bytes) ==
    LET magic == ReadAt(bytes, 0, 4)
        count == ReadAt(bytes, BONE_POINTER_OFFSET, 8)
        offset == ReadAt(bytes, BONE_POINTER_OFFSET + 8, 8)
    IN  IF Len(magic) < 4 THEN << >>
        ELSE IF S32(magic) # MAGIC_LDOM THEN << >>
        ELSE IF Len(count) < 8 \/ Len(offset) < 8 THEN << >>
        ELSE
        LET bone_count == S64(count)
            bone_data_start == HEADER_SIZE + S64(offset)
            file_size == Len(bytes)
            expected_end == bone_data_start + bone_count * BONE_STRUCT_SIZE
        IN  IF bone_count <= 0 THEN << >>
            ELSE IF bone_data_start >= file_size \/ expected_end > file_size
            THEN << >>
            ELSE IF bone_data_start < 0 THEN << >>
            ELSE [k \in 1..bone_count |->
                    LET bone_data ==
                            ReadAt(bytes,
                                   bone_data_start + (k - 1) * BONE_STRUCT_SIZE,
                                   BONE_STRUCT_SIZE)
                    IN  [index |-> k - 1,
                         parent_id |->
                            S16(SubSeq(bone_data, BONE_PARENT_ID_OFFSET + 1,
                                       BONE_PARENT_ID_OFFSET + 2))]]

\* Skeleton.get_bone(index), lines 48-52: the bone, None outside the list.
GetBone(bones, index) ==
    IF 0 <= index /\ index < Len(bones) THEN IntVal(index) ELSE None

\* struct.pack("<q", n) for small n.
SLE64(n) == IF n >= 0 THEN LE64(n)
            ELSE LET m == LE64(0 - 1 - n) IN [i \in 1..8 |-> 255 - m[i]]

\* An M3 file with a bone pointer {count, offset} at 0x180 and, `offset`
\* bytes behind the header of 0x630 bytes, one bone struct per parent id.
SkeletonFile(magic, count, offset, parent_ids) ==
    LET id(n) == << (65536 + n) % 256, ((65536 + n) \div 256) % 256 >>
    IN
    LE32(magic) \o Zeros(BONE_POINTER_OFFSET - 4)
    \o SLE64(count) \o SLE64(offset)
    \o Zeros(HEADER_SIZE - BONE_POINTER_OFFSET - 16)
    \o Zeros(offset)
    \o Concat([k \in 1..Len(parent_ids) |->
                  Zeros(BONE_PARENT_ID_OFFSET) \o id(parent_ids[k])
                  \o Zeros(BONE_STRUCT_SIZE - BONE_PARENT_ID_OFFSET - 2)])

\* Parent ids of one, two and three bones: roots, chains, a bone that is its
\* own parent, bones that name each other, parents outside the list.
ParentIdLists ==
    {<< p >> : p \in {-1, 0, 5, -2}}
    \cup {<< p1, p2 >> : p1 \in {-1, 0, 1}, p2 \in {-1, 0, 1, 2}}
    \cup { << -1, 0, 1 >>, << 1, 2, -1 >>, << 1, 2, 0 >>, << -1, 2, 1 >>,
           << 2, 0, 300 >> }

SkeletonSources ==
    {SkeletonFile(MAGIC_LDOM, Len(ps), 0, ps) : ps \in ParentIdLists}
    \cup { SkeletonFile(MAGIC_LDOM, 2, 8, << -1, 0 >>),
           SkeletonFile(MAGIC_LDOM, 1, 0, << -1, 0 >>),
           SkeletonFile(MAGIC_LDOM, 3, 0, << -1, 0 >>),
           SkeletonFile(MAGIC_LDOM, 0, 0, << 0 >>),
           SkeletonFile(MAGIC_LDOM, -1, 0, << 0 >>),
           SkeletonFile(MAGIC_LDOM + 1, 1, 0, << 0 >>),
           SubSeq(SkeletonFile(MAGIC_LDOM, 1, 0, << 0 >>), 1, 390),
           << 76, 68 >> }

\* A source is chosen; no archive is opened.
InitSkeleton ==
    /\ arch = 1
    /\ phase = "new"
    /\ err = "none"
    /\ index_file = [state |-> "none", pos |-> 0]
    /\ archive_file = [state |-> "none", pos |-> 0]
    /\ index_blocks = << >>
    /\ archive_blocks = << >>
    /\ aarc_table = << >>
    /\ files = << >>
    /\ root_block = 0
    /\ stack = << >>
    /\ walked = << >>
    /\ parsed = << >>
    /\ th = [t \in Threads |-> NoCall]
    /\ printed = << >>
    /\ earlier = NothingKept
    /\ source \in SkeletonSources
    /\ result = NoResult

\* skeleton = M3SkeletonExtractor(io.BytesIO(source)).get_skeleton(),
\* lines 208-215.
GetSkeleton ==
    /\ result.op = "none"
    /\ result' = [op |-> "get_skeleton", bones |-> ParseSkeleton(source)]
    /\ UNCHANGED << archive, source >>

\* skeleton.get_hierarchy_depth(skeleton.bones[bone]) up to its loop,
\* lines 60-61.
GetHierarchyDepthBegin(bone) ==
    /\ \/ result.op = "get_skeleton"
       \/ result.op = "get_hierarchy_depth" /\ result.pc = "return"
    /\ bone \in 0..(Len(result.bones) - 1)
    /\ result' = [op |-> "get_hierarchy_depth", bones |-> result.bones,
                  bone |-> bone, pc |-> "while", depth |-> 0,
                  current |-> IntVal(bone)]
    /\ UNCHANGED << archive, source >>

\* One test of the loop condition and, when it holds, one run of the loop
\* body, lines 62-67.
GetHierarchyDepthStep ==
    /\ result.op = "get_hierarchy_depth" /\ result.pc = "while"
    /\ result.depth < MaxLoop
    /\ LET current == result.bones[result.current.val + 1]
           next == GetBone(result.bones, current.parent_id)
       IN  IF current.parent_id # -1
           THEN result' = [result EXCEPT
                              !.depth = @ + 1,
                              !.current = next,
                              !.pc = IF next = None THEN "return" ELSE "while"]
           ELSE result' = [result EXCEPT !.pc = "return"]
    /\ UNCHANGED << archive, source >>

NextSkeleton ==
    \/ GetSkeleton
    \/ \E bone \in 0..2 : GetHierarchyDepthBegin(bone)
    \/ GetHierarchyDepthStep

SpecSkeleton == InitSkeleton /\ [][NextSkeleton]_vars

(***************************************************************************)
(* The claims.                                                             *)
(***************************************************************************)
Star == << 42 >>

Range(q) == {q[i] : i \in 1..Len(q)}

\* Thread t has returned from, or raised out of, a call of `op`.
Finished(t, op) == th[t].pc = "idle" /\ th[t].op = op

\* What the claims call the normalised path: lower-cased, backslash to slash.
ClaimKey(path) ==
    [i \in 1..Len(path) |->
        IF path[i] = 92 THEN 47
        ELSE IF path[i] \in 65..90 THEN path[i] + 32 ELSE path[i]]

Keys == {files[i].key : i \in 1..Len(files)}

\* C1: when open() has failed in a parse step, neither file handle is still
\* open when the error reaches the caller; and once close() has closed a
\* handle, no handle is open.
C1_HandlesReleased ==
    /\ phase = "failed" =>
          index_file.state # "open" /\ archive_file.state # "open"
    /\ (index_file.state = "closed" \/ archive_file.state = "closed") =>
          index_file.state # "open" /\ archive_file.state # "open"

\* C2: under any interleaving of two extract_file calls on one opened
\* archive, each call that returns, returns what it returns when run alone;
\* and no call's seek falls between the seek and the read of the other
\* (the two calls are never both between their seek and their read).
C2_ConcurrentExtractAsAlone ==
    phase = "ready" =>
       /\ \A t \in Threads :
             Finished(t, "extract_file") /\ th[t].raised = "none" =>
                th[t].val = ExtractFileAlone(files, aarc_table, archive_blocks,
                                             ArchiveBytes, th[t].arg)
       /\ ~(\A t \in Threads : th[t].pc = "read")

\* C3: after a failed open() the object serves no lookups: list_files
\* returns no path, and get_file_info and extract_file find no file (the
\* path dict holds nothing of the parse that was given up).
C3_FailedOpenServesNothing ==
    phase = "failed" =>
       /\ ListFilesOf(files, Star) = << >>
       /\ \A p \in QueryPaths :
             /\ GetFileInfoOf(files, p).kind = "None"
             /\ ExtractLookup(files, aarc_table, archive_blocks, p).step
                   = "return"
       /\ Len(files) = 0

\* C4: after a successful open(), list_files("*") holds every path the walk
\* stored exactly once, and get_file_info of every listed path returns a
\* record whose digest is not empty.
C4_ListStatRoundTrip ==
    phase = "ready" =>
       LET listed == ListFilesOf(files, Star)
       IN  /\ \A i \in 1..Len(walked) :
                 Cardinality({j \in 1..Len(listed) :
                                 listed[j] = walked[i].full_path}) = 1
           /\ \A j \in 1..Len(listed) :
                 LET info == GetFileInfoOf(files, listed[j])
                 IN  /\ info.kind = "FileEntry"
                     /\ Len(info.entry.sha_hash) > 0

\* The bytes of the archive file that block blk describes.
StoredBytes(blk) == SubSeq(ArchiveBytes, blk.offset + 1, blk.offset + blk.block_size)

\* Thread t has returned from or raised out of extract_file(p), p names a
\* record of the path dict, the record's digest is in the digest dict, and
\* the block that entry names is a block of the archive file, inside it.
Resolved(t) ==
    /\ Finished(t, "extract_file")
    /\ \E i \in 1..Len(files) :
          /\ files[i].key = ClaimKey(th[t].arg)
          /\ files[i].entry.sha_hash \in DOMAIN aarc_table
          /\ LET n == aarc_table[files[i].entry.sha_hash].block_index
             IN  /\ n < Len(archive_blocks)
                 /\ archive_blocks[n + 1].offset + archive_blocks[n + 1].block_size
                       <= Len(ArchiveBytes)

RecordOf(t) ==
    files[CHOOSE i \in 1..Len(files) : files[i].key = ClaimKey(th[t].arg)].entry

ContentBlockOf(t) ==
    archive_blocks[aarc_table[RecordOf(t).sha_hash].block_index + 1]

\* C5: extract_file of a path whose record is stored raw returns the
\* block_size bytes at the offset of the archive block that the AARC entry
\* of the record's digest names; for a record stored compressed it returns
\* the zlib decompression of those bytes.
C5_ExtractReturnsContentBlock ==
    (Resolved(1) /\ th[1].raised = "none") =>
       LET stored == StoredBytes(ContentBlockOf(1))
       IN  IF RecordOf(1).flags # 3
           THEN th[1].val = [kind |-> "bytes", data |-> stored]
           ELSE ZlibDecompress(stored).ok =>
                   th[1].val = [kind |-> "bytes",
                                data |-> ZlibDecompress(stored).data]

\* Witness of C5: a compressed record was extracted from a block other than
\* the one its trailing block field names, and came back decompressed.
C5_Witness ==
    /\ Resolved(1) /\ th[1].raised = "none"
    /\ RecordOf(1).flags = 3
    /\ aarc_table[RecordOf(1).sha_hash].block_index # 2
    /\ th[1].val.kind = "bytes"
    /\ th[1].val.data # StoredBytes(ContentBlockOf(1))

LastPrinted == IF printed = << >> THEN [text |-> "none", path |-> << >>]
               ELSE printed[Len(printed)]

\* Some record of the path dict has a digest the digest dict does not hold.
MissingContent(i) == files[i].entry.sha_hash \notin DOMAIN aarc_table

\* C6: a file whose digest the AARC table does not hold does not keep
\* open() from succeeding; extract_file of its path returns None without
\* raising, after printing the warning; and list_files and get_file_info
\* return the path and its record in every state of the opened archive,
\* before and after such an extract.
C6_MissingContentIsRecoverable ==
    phase = "ready" =>
       \A i \in 1..Len(files) :
          MissingContent(i) =>
             /\ files[i].entry.full_path \in Range(ListFilesOf(files, Star))
             /\ \A p \in QueryPaths :
                   ClaimKey(p) = files[i].key =>
                      /\ GetFileInfoOf(files, p) =
                            [kind |-> "FileEntry", entry |-> files[i].entry]
                      /\ (Finished(1, "extract_file") /\ th[1].arg = p) =>
                            /\ th[1].raised = "none"
                            /\ th[1].val = None
                            /\ LastPrinted =
                                  [text |-> "Warning: File not in AARC table",
                                   path |-> p]

\* Witness of C6: open() succeeded on an archive with such a file, and
\* extract_file of its path has returned None.
C6_Witness ==
    /\ phase = "ready"
    /\ \E i \in 1..Len(files) :
          /\ MissingContent(i)
          /\ Finished(1, "extract_file")
          /\ ClaimKey(th[1].arg) = files[i].key
          /\ th[1].val = None /\ th[1].raised = "none"

\* The call of thread t ended on the archive file being closed already.
OnClosedFile(t) ==
    th[t].raised \in {"ValueError: seek of closed file",
                      "ValueError: read of closed file"}

\* C7: extract_file of a record flagged compressed whose stored bytes are no
\* zlib stream returns None without raising, after printing that the
\* decompression failed; and every extract_file of another record, whatever
\* failed before it, returns that record's bytes.
C7_CorruptPayloadIsConfined ==
    (Resolved(1) /\ ~OnClosedFile(1)) =>
       LET stored == StoredBytes(ContentBlockOf(1))
           corrupt == RecordOf(1).flags = 3 /\ ~ZlibDecompress(stored).ok
       IN  /\ th[1].raised = "none"
           /\ IF corrupt
              THEN /\ th[1].val = None
                   /\ LastPrinted = [text |-> "Decompression failed",
                                     path |-> th[1].arg]
              ELSE th[1].val.kind = "bytes"

\* Witness of C7: the decompression of one path failed, and a later
\* extract_file of another path returned bytes.
C7_Witness ==
    /\ LastPrinted.text = "Decompression failed"
    /\ Resolved(1)
    /\ th[1].arg # LastPrinted.path
    /\ th[1].val.kind = "bytes"

\* C8: extract_file decompresses the bytes of the block exactly when the
\* record's flags are 3: for every other value of flags, 0 and values that
\* mean nothing included, it returns the bytes of the block as they are.
C8_DecompressIffFlagsIsThree ==
    (Resolved(1) /\ th[1].raised = "none") =>
       LET stored == StoredBytes(ContentBlockOf(1))
           inflated == ZlibDecompress(stored)
           unmodified == th[1].val.kind = "bytes" /\ th[1].val.data = stored
       IN  /\ RecordOf(1).flags # 3 => unmodified
           /\ RecordOf(1).flags = 3 =>
                 /\ ~unmodified
                 /\ th[1].val.kind = "bytes" <=> inflated.ok
                 /\ inflated.ok => th[1].val.data = inflated.data

\* Witness of C8: a record with flags that are neither 0 nor 3, over bytes
\* that are a zlib stream, was returned as stored.
C8_Witness ==
    /\ Resolved(1) /\ th[1].raised = "none"
    /\ RecordOf(1).flags \notin {0, 3}
    /\ ZlibDecompress(StoredBytes(ContentBlockOf(1))).ok
    /\ th[1].val = [kind |-> "bytes", data |-> StoredBytes(ContentBlockOf(1))]

\* C9: for a path that is no key of the path dict once lower-cased and with
\* backslashes turned into slashes, get_file_info and extract_file return
\* None and do not raise, in every state of the archive after open().
C9_UnknownPathIsNotFound ==
    \A op \in {"get_file_info", "extract_file"} :
       (Finished(1, op) /\ ClaimKey(th[1].arg) \notin Keys) =>
          th[1].val = None /\ th[1].raised = "none"

\* Witness of C9: extract_file of an unknown path has returned on an
\* opened archive that holds files.
C9_Witness ==
    /\ phase = "ready" /\ files # << >>
    /\ Finished(1, "extract_file")
    /\ ClaimKey(th[1].arg) \notin Keys
    /\ th[1].val = None

\* open() has run _parse_index_header; it has run _parse_archive_header.
IndexHeaderRun == phase \notin {"new", "index_opened", "opened"}
ArchiveHeaderRun ==
    \/ phase \in {"archive_parsed", "walking", "ready"}
    \/ phase = "failed" /\ Len(index_blocks) > 0 /\ archive_file.pos > 0

HasMagic(bytes) == Len(bytes) >= 4 /\ SubSeq(bytes, 1, 4) = << 80, 65, 67, 75 >>
HasVersion1(bytes) == Len(bytes) >= 8 /\ SubSeq(bytes, 5, 8) = << 1, 0, 0, 0 >>

\* C10: for each file, a first word other than PACK makes open() raise the
\* invalid-magic error, whatever the version word is, and PACK followed by a
\* version other than 1 makes it raise the unsupported-version error; either
\* way nothing of that file is parsed: no block table, no tree, no AARC table.
C10_MagicThenVersion ==
    /\ (IndexHeaderRun /\ Len(IndexBytes) >= 8) =>
          /\ ~HasMagic(IndexBytes) =>
                /\ phase = "failed"
                /\ err = "ValueError: Invalid index magic"
          /\ (HasMagic(IndexBytes) /\ ~HasVersion1(IndexBytes)) =>
                /\ phase = "failed"
                /\ err = "ValueError: Unsupported index version"
          /\ ~(HasMagic(IndexBytes) /\ HasVersion1(IndexBytes)) =>
                /\ Len(index_blocks) = 0
                /\ Len(files) = 0
                /\ Len(walked) = 0
    /\ (ArchiveHeaderRun /\ Len(ArchiveBytes) >= 8) =>
          /\ ~HasMagic(ArchiveBytes) =>
                /\ phase = "failed"
                /\ err = "ValueError: Invalid archive magic"
          /\ (HasMagic(ArchiveBytes) /\ ~HasVersion1(ArchiveBytes)) =>
                /\ phase = "failed"
                /\ err = "ValueError: Unsupported archive version"
          /\ ~(HasMagic(ArchiveBytes) /\ HasVersion1(ArchiveBytes)) =>
                /\ Len(archive_blocks) = 0
                /\ DOMAIN aarc_table = {}

\* Witness of C10: open() failed on a file whose magic and version are both
\* wrong, with the invalid-magic error.
C10_Witness ==
    /\ phase = "failed"
    /\ ~HasMagic(ArchiveBytes) /\ ~HasVersion1(ArchiveBytes)
    /\ err = "ValueError: Invalid archive magic"

\* C11: a read that the end of the file cuts short is fatal at every step of
\* the parse: open() does not return with a record whose 20-byte digest was
\* read short, nor with an AARC entry built from fewer than 32 bytes, and a
\* file that ends inside a record or an entry makes open() raise.
C11_TruncatedReadIsFatal ==
    phase = "ready" =>
       /\ \A i \in 1..Len(files) : Len(files[i].entry.sha_hash) = 20
       /\ \A d \in DOMAIN aarc_table : Len(d) = 20
       /\ \A b \in Range(index_blocks) :
             b.offset + b.block_size <= Len(IndexBytes)

\* The block table of the index file was read to its end: magic and version
\* are right and the list holds as many descriptors as the header counts.
IndexTableRead ==
    /\ IndexHeaderRun
    /\ HasMagic(IndexBytes) /\ HasVersion1(IndexBytes)
    /\ Len(IndexBytes) >= 556
    /\ Len(index_blocks) = U32(ReadAt(IndexBytes, 544, 4))

\* Block i of a block list is at least 16 bytes long and lies in the file
\* `bytes` with its first 16 bytes; its first 4 bytes are the magic.
HoldsSubHeader(bytes, blocks, i) ==
    blocks[i].block_size >= 16 /\ blocks[i].offset + 16 <= Len(bytes)
BeginsWith(bytes, blocks, i, magic) ==
    ReadAt(bytes, blocks[i].offset, 4) = LE32(magic)

\* The blocks of the index that are at least 16 bytes long and begin with
\* the AIDX magic.
AIDXBlocks ==
    {i \in 1..Len(index_blocks) :
        /\ HoldsSubHeader(IndexBytes, index_blocks, i)
        /\ BeginsWith(IndexBytes, index_blocks, i, AIDX_MAGIC)}

Least(S) == CHOOSE m \in S : \A x \in S : m <= x

\* C12: the root block index is the fourth word of the first block, in the
\* order of the block table, that is at least 16 bytes long and begins with
\* the AIDX magic: shorter blocks are passed over whatever they hold, later
\* AIDX blocks are ignored, and with no such block open() raises "AIDX block
\* not found in index".
C12_RootFromFirstAIDXBlock ==
    (/\ IndexTableRead
     /\ \A i \in 1..Len(index_blocks) :
           index_blocks[i].block_size >= 16 =>
              HoldsSubHeader(IndexBytes, index_blocks, i)) =>
       IF AIDXBlocks = {}
       THEN /\ phase = "failed"
            /\ err = "ValueError: AIDX block not found in index"
            /\ root_block = 0
       ELSE /\ root_block =
                  U32(ReadAt(IndexBytes,
                             index_blocks[Least(AIDXBlocks)].offset + 12, 4))
            /\ err # "ValueError: AIDX block not found in index"

\* Witness of C12: open() succeeded on an index where a block shorter than 16
\* bytes that begins with the AIDX magic comes first, and where a later AIDX
\* block names another root.
C12_Witness ==
    /\ phase = "ready"
    /\ AIDXBlocks # {}
    /\ \E i \in 1..Len(index_blocks) :
          /\ i < Least(AIDXBlocks)
          /\ index_blocks[i].block_size < 16
          /\ BeginsWith(IndexBytes, index_blocks, i, AIDX_MAGIC)
    /\ \E j \in AIDXBlocks :
          /\ j > Least(AIDXBlocks)
          /\ U32(ReadAt(IndexBytes, index_blocks[j].offset + 12, 4)) # root_block

\* The block table of the archive file was read to its end.
ArchiveTableRead ==
    /\ ArchiveHeaderRun
    /\ HasMagic(ArchiveBytes) /\ HasVersion1(ArchiveBytes)
    /\ Len(ArchiveBytes) >= 556
    /\ Len(archive_blocks) = U32(ReadAt(ArchiveBytes, 544, 4))

AARCBlocks ==
    {i \in 1..Len(archive_blocks) :
        /\ HoldsSubHeader(ArchiveBytes, archive_blocks, i)
        /\ BeginsWith(ArchiveBytes, archive_blocks, i, AARC_MAGIC)}

\* The entry count and the table block index of the first AARC block, the
\* offset of that table block, and the k-th (from 0) 32 bytes there.
AARCCount ==
    U32(ReadAt(ArchiveBytes, archive_blocks[Least(AARCBlocks)].offset + 8, 4))
AARCTableIndex ==
    U32(ReadAt(ArchiveBytes, archive_blocks[Least(AARCBlocks)].offset + 12, 4))
AARCTableOffset == archive_blocks[AARCTableIndex + 1].offset
AARCTableEntry(k) == ReadAt(ArchiveBytes, AARCTableOffset + 32 * k, 32)

\* C13: with no block of at least 16 bytes that begins with the AARC magic,
\* open() raises "AARC block not found in archive"; otherwise the digest dict
\* holds exactly the first `count` entries of 32 bytes of the block that the
\* first AARC block names as its table (the last entry of a digest wins),
\* `count` being that sub-header's entry count.
C13_DigestDictFromNamedTable ==
    (/\ ArchiveTableRead
     /\ \A i \in 1..Len(archive_blocks) :
           archive_blocks[i].block_size >= 16 =>
              HoldsSubHeader(ArchiveBytes, archive_blocks, i)) =>
       IF AARCBlocks = {}
       THEN /\ phase = "failed"
            /\ err = "ValueError: AARC block not found in archive"
            /\ DOMAIN aarc_table = {}
       ELSE (/\ AARCTableIndex < Len(archive_blocks)
             /\ AARCTableOffset + 32 * AARCCount <= Len(ArchiveBytes)) =>
               /\ DOMAIN aarc_table =
                     {SubSeq(AARCTableEntry(k), 5, 24) : k \in 0..(AARCCount - 1)}
               /\ \A d \in DOMAIN aarc_table :
                     LET last == CHOOSE k \in 0..(AARCCount - 1) :
                                    /\ SubSeq(AARCTableEntry(k), 5, 24) = d
                                    /\ \A j \in (k + 1)..(AARCCount - 1) :
                                          SubSeq(AARCTableEntry(j), 5, 24) # d
                     IN  /\ aarc_table[d].sha_hash = d
                         /\ aarc_table[d].block_index =
                               U32(SubSeq(AARCTableEntry(last), 1, 4))
                         /\ aarc_table[d].uncompressed_size =
                               U64(SubSeq(AARCTableEntry(last), 25, 32))

\* Witness of C13: open() succeeded on an archive whose first AARC block
\* names a table block that is not the block after it, and whose table block
\* is longer than the entries counted.
C13_Witness ==
    /\ phase = "ready"
    /\ AARCBlocks # {}
    /\ AARCTableIndex + 1 # Least(AARCBlocks) + 1
    /\ archive_blocks[AARCTableIndex + 1].block_size > 32 * AARCCount
    /\ Cardinality(DOMAIN aarc_table) = AARCCount

\* d1/d2/.../dk/ for the directory names d1, ..., dk: each name followed by
\* one slash, nothing for k = 0.
RECURSIVE JoinChain(_)
JoinChain(chain) ==
    IF chain = << >> THEN << >>
    ELSE Head(chain) \o << 47 >> \o JoinChain(Tail(chain))

\* The pattern a/** .
UnderA == << 97, 47, 42, 42 >>

\* C14: the full_path of every file record the walk reaches through the
\* directories d1, ..., dk from the root block is d1/d2/.../dk/name, with no
\* leading slash; on the opened archive every record of the path dict is
\* one of those, list_files("a/**") returns the path of every record under a
\* first directory a, and extract_file of such a path, for a record stored
\* raw, returns the bytes stored for it.
C14_FullPathIsChainAndName ==
    /\ \A i \in 1..Len(walked) :
          /\ walked[i].full_path = JoinChain(walked[i].chain) \o walked[i].name
          /\ walked[i].chain # << >> => Head(walked[i].full_path) # 47
    /\ phase = "ready" =>
          /\ \A i \in 1..Len(files) :
                \E j \in 1..Len(walked) :
                   files[i].entry.full_path = walked[j].full_path
          /\ (Finished(1, "list_files") /\ th[1].arg = UnderA) =>
                \A j \in 1..Len(walked) :
                   (/\ walked[j].chain # << >>
                    /\ Head(walked[j].chain) = << 97 >>
                    /\ \E i \in 1..Len(files) :
                          files[i].entry.full_path = walked[j].full_path) =>
                      walked[j].full_path \in Range(th[1].val.paths)
          /\ (/\ Resolved(1) /\ ~OnClosedFile(1)
              /\ RecordOf(1).flags # 3
              /\ \E j \in 1..Len(walked) :
                    th[1].arg = JoinChain(walked[j].chain) \o walked[j].name) =>
                th[1].val = [kind |-> "bytes",
                             data |-> StoredBytes(ContentBlockOf(1))]

\* Witness of C14: a file in directory b inside directory a was extracted
\* under a/b/name and its 11 stored bytes came back.
C14_Witness ==
    /\ phase = "ready"
    /\ Resolved(1)
    /\ \E j \in 1..Len(walked) :
          /\ walked[j].chain = << << 97 >>, << 98 >> >>
          /\ th[1].arg = << 97, 47, 98, 47 >> \o walked[j].name
    /\ th[1].val = [kind |-> "bytes", data |-> PayloadHello]

\* C15: list_files returns the same paths for two patterns that differ only
\* in the case of letters or in backslashes standing for slashes.
C15_ListIgnoresCaseAndSlashDirection ==
    \A p, q \in QueryPatterns :
       (/\ ClaimKey(p) = ClaimKey(q)
        /\ Finished(1, "list_files") /\ th[1].arg = p) =>
          /\ th[1].raised = "none"
          /\ th[1].val = [kind |-> "list", paths |-> ListFilesOf(files, q)]

\* Witness of C15: list_files of a pattern with capitals and a backslash
\* returned paths, and another pattern differs from it only in those.
C15_Witness ==
    /\ phase = "ready"
    /\ Finished(1, "list_files")
    /\ th[1].val.paths # << >>
    /\ \E q \in QueryPatterns :
          /\ q # th[1].arg
          /\ ClaimKey(q) = ClaimKey(th[1].arg)
          /\ q = ClaimKey(q)

\* C16: extract_file is idempotent: a call on the opened archive returns, or
\* raises, what an earlier call with the same path did, whatever list_files,
\* get_file_info and extract_file calls ran in between.
C16_ExtractIsIdempotent ==
    (/\ earlier.kind = "kept"
     /\ Finished(1, "extract_file")
     /\ th[1].arg = earlier.arg) =>
       /\ th[1].val = earlier.val
       /\ th[1].raised = earlier.raised

\* Witness of C16: a path was extracted a second time and returned the bytes
\* kept from the first time, after a call in between that printed a line.
C16_Witness ==
    /\ phase = "ready"
    /\ earlier.kind = "kept"
    /\ earlier.printed = << >> /\ printed # << >>
    /\ Finished(1, "extract_file")
    /\ th[1].arg = earlier.arg
    /\ th[1].val.kind = "bytes"
    /\ th[1].val = earlier.val

\* C17: once open() has returned, no step of list_files, get_file_info or
\* extract_file changes the path dict, the digest dict, the root block index
\* or either block list, whether the call returns a value, returns None or
\* raises.
C17_LookupsLeaveParsedData ==
    [][phase = "ready" =>
          UNCHANGED << files, aarc_table, root_block, index_blocks,
                       archive_blocks >>]_vars

\* Witness of C17: on the opened archive an extract_file call has returned
\* None after its warning, and the path dict still holds records.
C17_Witness ==
    /\ phase = "ready"
    /\ Finished(1, "extract_file")
    /\ th[1].val = None
    /\ LastPrinted.path = th[1].arg
    /\ files # << >> /\ DOMAIN aarc_table # {}

\* C18: once open() has returned or raised, the index file is not read or
\* positioned again; no step of list_files or get_file_info moves either
\* file; the archive file moves only in the one seek of an extract_file call,
\* to the offset of the block, and in the one read that follows it.
C18_OneSeekOneReadOnArchiveOnly ==
    [][Callable =>
          /\ index_file.pos' = index_file.pos
          /\ (th'[1] # th[1] /\ th'[1].op \in {"list_files", "get_file_info"}) =>
                archive_file' = archive_file
          /\ archive_file.pos' # archive_file.pos =>
                \/ /\ th[1].pc = "seek" /\ th'[1].pc = "read"
                   /\ archive_file.pos' = th[1].block.offset
                \/ /\ th[1].pc = "read" /\ th'[1].pc = "idle"
                   /\ archive_file.pos' > archive_file.pos
          /\ th'[1].pc = "seek" => th[1].pc \in {"idle", "seek"}
          /\ th'[1].pc = "read" => th[1].pc \in {"seek", "read"}]_vars

\* Witness of C18: extract_file has returned bytes, and the archive file
\* stands at the end of the block it read.
C18_Witness ==
    /\ phase = "ready"
    /\ Resolved(1) /\ th[1].raised = "none"
    /\ th[1].val.kind = "bytes"
    /\ archive_file.pos =
          ContentBlockOf(1).offset + ContentBlockOf(1).block_size

\* The three magics the claim names, byte by byte: LDOM, 43MD, MD34.
AcceptedMagics ==
    { << 76, 68, 79, 77 >>, << 52, 51, 77, 68 >>, << 77, 68, 51, 52 >> }

\* C19: parse_header_bytes on data of at least 8 bytes raises ValueError
\* "Invalid M3 magic" when the first 4 bytes are none of LDOM, 43MD, MD34;
\* otherwise it returns a header whose magic is those 4 bytes and whose
\* version is the little-endian 32-bit value of bytes 4..8.
C19_MagicCheckedThenVersionRead ==
    (result.op = "parse_header_bytes" /\ Len(source) >= 8) =>
        IF SubSeq(source, 1, 4) \notin AcceptedMagics
        THEN result.raised = "ValueError: Invalid M3 magic"
        ELSE /\ result.raised = "none"
             /\ result.val.magic = SubSeq(source, 1, 4)
             /\ result.val.version =
                   source[5] + 256 * source[6] + 65536 * source[7]
                   + 16777216 * source[8]

\* Witness of C19: a header with magic 43MD and version 0x01020304 has been
\* returned.
C19_Witness ==
    /\ result.op = "parse_header_bytes"
    /\ result.raised = "none"
    /\ result.val.magic = << 52, 51, 77, 68 >>
    /\ result.val.version = 16909060

\* The other half of C19's case: a magic that is not accepted has been
\* refused on data of 8 bytes or more.
C19_RefusedWitness ==
    /\ result.op = "parse_header_bytes"
    /\ Len(source) >= 8
    /\ result.raised = "ValueError: Invalid M3 magic"

\* The bone entries the source of the export holds, in file order.
SourceBones == GetBones(source, ParseChunks(source).chunks)

\* The node has the node index c in its list of children.
HasChild(node, c) ==
    /\ node.children.kind = "list"
    /\ \E i \in 1..Len(node.children.items) : node.children.items[i] = c

\* The node indices (from 0) of the exported nodes that have c as a child.
HoldersOf(c) ==
    {j \in 0..(Len(result.gltf.nodes) - 1) :
        HasChild(result.gltf.nodes[j + 1], c)}

\* C20: an export with include_skeleton of a source that holds n >= 1 bone
\* entries saves one skin of exactly n joints, the joint node of the k-th
\* bone of the file at node index k; a bone whose parent_id is the id of a
\* bone of the file is a child of the joint node of a bone with that id and
\* of no other node; a bone with parent_id -1 is a node of the scene.
C20_SkeletonKeepsBonesAndParents ==
    (/\ result.op = "export" /\ result.include_skeleton
     /\ result.raised = "none" /\ Len(SourceBones) >= 1) =>
        LET n == Len(SourceBones)
            g == result.gltf
        IN  /\ Len(g.skins) = 1
            /\ g.skins[1].joints = [k \in 1..n |-> k]
            /\ Len(g.nodes) = n + 1
            /\ \A k \in 1..n :
                  /\ g.nodes[k + 1].name = << "joint_", SourceBones[k].id >>
                  /\ g.nodes[k + 1].mesh = None
            /\ \A c \in 1..n :
                  IF \E p \in 1..n : SourceBones[p].id = SourceBones[c].parent_id
                  THEN \E p \in 1..n :
                          /\ SourceBones[p].id = SourceBones[c].parent_id
                          /\ HoldersOf(c) = {p}
                  ELSE HoldersOf(c) = {}
            /\ \A c \in 1..n :
                  SourceBones[c].parent_id = -1 =>
                      \E i \in 1..Len(g.scenes[g.scene + 1].nodes) :
                          g.scenes[g.scene + 1].nodes[i] = c

\* Witness of C20: three bones, the second a child of the first and the
\* third a child of the second, have been exported with their skeleton.
C20_Witness ==
    /\ result.op = "export" /\ result.include_skeleton
    /\ result.raised = "none"
    /\ Len(SourceBones) = 3
    /\ SourceBones[1].parent_id = -1
    /\ HoldersOf(2) = {1}
    /\ HoldersOf(3) = {2}
    /\ result.gltf.scenes[1].nodes = << 0, 1 >>

\* What the chunk index of the source gives: whether it can be read at all,
\* and the vertices and indices the VPOS and INDX chunks hold.
SourceChunks == ParseChunks(source)
SourceVertices == GetVertices(source, SourceChunks.chunks)
SourceIndices == GetIndices(source, SourceChunks.chunks)

\* C21: export on a source whose chunk index is read and that yields no
\* vertices or no indices raises ValueError "No mesh data found in M3 file";
\* and an export that raises saves no GLTF2 object.
C21_NoMeshDataRaisesAndWritesNothing ==
    result.op = "export" =>
        /\ (/\ SourceChunks.raised = "none"
            /\ (SourceVertices = << >> \/ SourceIndices = << >>)) =>
               result.raised = "ValueError: No mesh data found in M3 file"
        /\ result.raised # "none" => result.gltf = None

\* Witness of C21: a source with an INDX chunk of 3 indices and a VPOS chunk
\* that holds no vertex has been refused, and nothing was saved.
C21_Witness ==
    /\ result.op = "export"
    /\ SourceChunks.raised = "none"
    /\ FindChunk(SourceChunks.chunks, VPOS) # None
    /\ SourceVertices = << >>
    /\ Len(SourceIndices) = 3
    /\ result.raised = "ValueError: No mesh data found in M3 file"
    /\ result.gltf = None

\* The calls of _parse_directory that returned, and those that got as far
\* as locating their string table, as positions in `parsed`.
ReturnedCalls == {i \in 1..Len(parsed) : parsed[i].err = "none"}
LocatedCalls == {i \in 1..Len(parsed) : parsed[i].located}

\* The two counts at the head of the block of the i-th call, read from the
\* index file itself, and the position right behind them.
BlockOfCall(i) == index_blocks[parsed[i].block + 1]
DirCount(i) == U32(ReadAt(IndexBytes, BlockOfCall(i).offset, 4))
FileCount(i) == U32(ReadAt(IndexBytes, BlockOfCall(i).offset + 4, 4))
EntriesStart(i) == BlockOfCall(i).offset + 8

\* The string table of the i-th call, located with file records of n bytes.
StringTableWith(i, n) ==
    /\ parsed[i].string_table_offset =
          EntriesStart(i) + DirCount(i) * 8 + FileCount(i) * n
    /\ parsed[i].string_table_size =
          BlockOfCall(i).block_size - 8 - (DirCount(i) * 8 + FileCount(i) * n)

HasNul(data, off) == \E j \in (off + 1)..Len(data) : data[j] = 0

\* The name offsets of the k-th directory record and of the k-th file record
\* the i-th call read, taken from the index file.
DirNameOffset(i, k) ==
    U32(ReadAt(IndexBytes, EntriesStart(i) + 8 * (k - 1), 4))
FileNameOffset(i, k) == U32(ReadAt(IndexBytes, parsed[i].ats[k], 4))

\* C23: a record whose name offset points to where no terminating NUL
\* follows in the string table is skipped: every file record the walk stored
\* and every sub-directory it went on to walk has a name that ends in a NUL
\* inside the string table.  (That open succeeds and the other records are
\* kept is what the code does.)
C23_UnterminatedNameIsSkipped ==
    \A i \in 1..Len(parsed) :
        /\ \A k \in 1..Len(parsed[i].entries) :
              HasNul(parsed[i].string_data, FileNameOffset(i, k))
        /\ \A k \in 1..Len(parsed[i].subdirs) :
              HasNul(parsed[i].string_data, DirNameOffset(i, k))

\* C24: every key of self._files is the full_path of its record lower-cased
\* and with every backslash replaced by a slash; no key holds a backslash,
\* and get_file_info(record.full_path) returns the record of that key.
C24_KeysAreNormalizedAtInsertion ==
    \A i \in 1..Len(files) :
        /\ files[i].key = ClaimKey(files[i].entry.full_path)
        /\ 92 \notin Range(files[i].key)
        /\ GetFileInfoOf(files, files[i].entry.full_path) =
              [kind |-> "FileEntry", entry |-> files[i].entry]

\* The greatest element of a non-empty set of numbers.
Greatest(S) == CHOOSE x \in S : \A y \in S : y <= x

\* The file records of the tree under directory block b in the order the
\* claim gives, read from the index file: the records of the block in record
\* order, then, for each sub-directory record in record order, all of that
\* sub-directory's tree.  Each with its full path and its digest.
RECURSIVE RecordsInClaimOrder(_, _)
RecordsInClaimOrder(b, prefix) ==
    LET off == index_blocks[b + 1].offset
        d == U32(ReadAt(IndexBytes, off, 4))
        f == U32(ReadAt(IndexBytes, off + 4, 4))
        names == ReadAt(IndexBytes, off + 8 + 8 * d + 56 * f,
                        index_blocks[b + 1].block_size - 8 - (8 * d + 56 * f))
        NameAt(pos) == ExtractName(names, U32(ReadAt(IndexBytes, pos, 4)))
        own == [k \in 1..f |->
                  LET pos == off + 8 + 8 * d + 52 * (k - 1)
                  IN  [full_path |-> prefix \o NameAt(pos),
                       sha_hash |-> ReadAt(IndexBytes, pos + 28, 20)]]
        below == [k \in 1..d |->
                    LET pos == off + 8 + 8 * (k - 1)
                    IN  RecordsInClaimOrder(
                            U32(ReadAt(IndexBytes, pos + 4, 4)),
                            prefix \o NameAt(pos) \o << 47 >>)]
    IN  own \o Concat(below)

\* C25: the walk stores the file records of a block in record order before
\* it walks any sub-directory of the block, and walks the sub-directories in
\* record order, depth first; of the records that share a lower-cased path
\* the dict holds exactly one, the last in that order; and an index with
\* such records opens.
C25_FilesBeforeSubdirsLastWriterWins ==
    /\ phase = "ready" =>
          LET order == RecordsInClaimOrder(root_block, << >>)
              SameKey(i) == {j \in 1..Len(order) :
                                Lower(order[j].full_path)
                                   = Lower(order[i].full_path)}
          IN  /\ [i \in 1..Len(walked) |-> walked[i].full_path]
                    = [i \in 1..Len(order) |-> order[i].full_path]
              /\ \A i \in 1..Len(order) :
                    LET last == order[Greatest(SameKey(i))]
                        held == {j \in 1..Len(files) :
                                    files[j].key = Lower(order[i].full_path)}
                    IN  /\ Cardinality(held) = 1
                        /\ \A j \in held :
                              /\ files[j].entry.full_path = last.full_path
                              /\ files[j].entry.sha_hash = last.sha_hash
              /\ \A j \in 1..Len(files) :
                    \E i \in 1..Len(order) :
                        files[j].key = Lower(order[i].full_path)
    /\ IndexBytes = DuplicateIndex => phase # "failed"

\* Witness of C25: the index  R.x, r.X, a/f.x, a/b/g.x, A/F.x  is open; five
\* records were stored, a/b/g.x before A/F.x, and the dict holds three: r.X
\* with the digest of the second record, and A/F.x.
C25_Witness ==
    /\ phase = "ready"
    /\ IndexBytes = DuplicateIndex
    /\ Len(walked) = 5
    /\ walked[4].full_path = << 97, 47, 98, 47, 103, 46, 120 >>
    /\ walked[5].full_path = << 65, 47, 70, 46, 120 >>
    /\ Len(files) = 3
    /\ files[1].key = << 114, 46, 120 >>
    /\ files[1].entry.full_path = << 114, 46, 88 >>
    /\ files[1].entry.sha_hash = Digest(2)
    /\ files[2].entry.full_path = << 65, 47, 70, 46, 120 >>

\* C26: open() opens both files, then parses both block tables, then walks
\* the tree, then parses the AARC table: a parse step runs only with both
\* files opened; the walk runs only with the index block table read, and
\* before the digest dict is built; an open() that returns has built the
\* digest dict; and no lookup is served while open() is still running.
C26_TreeWalkThenContentTable ==
    /\ phase \in {"index_parsed", "archive_parsed", "walking", "ready"} =>
          index_file.state # "none" /\ archive_file.state # "none"
    /\ phase = "walking" =>
          /\ index_blocks # << >>
          /\ archive_blocks # << >>
          /\ DOMAIN aarc_table = {}
    /\ phase = "ready" => DOMAIN aarc_table # {}
    /\ \A t \in Threads : th[t].op # "none" => phase \in {"ready", "failed"}

\* C27: the walk never enters a directory block that is still being walked
\* (the block of the call itself or of a call above it), and it never ends
\* by running out of call depth (a sub-directory record that names such a
\* block stops the walk with the cyclic-tree error instead).
C27_CycleStopsTheWalk ==
    /\ \A i \in 1..Len(parsed) : parsed[i].block \notin Range(parsed[i].above)
    /\ err # "RecursionError"

\* C28: in a call of _parse_directory that returns, with d directory records
\* and f file records, the record loop stops reading exactly where the
\* string table was taken to start, and reads its file records at equal
\* distances from entries_start + d*8, f of those distances reaching the
\* string table.
C28_RecordsEndAtStringTable ==
    \A i \in ReturnedCalls :
        LET first == EntriesStart(i) + DirCount(i) * 8
            table == parsed[i].string_table_offset
        IN  /\ parsed[i].pos = table
            /\ \A k \in 1..Len(parsed[i].ats) :
                  FileCount(i) * (parsed[i].ats[k] - first)
                     = (k - 1) * (table - first)

\* C29: on an open archive, extract_file of a path the path dict holds never
\* raises; when the AARC entry of the record's digest names a block index
\* the archive's block list does not have, it returns None.
C29_ExtractOfKnownPathNeverRaises ==
    (/\ phase = "ready"
     /\ Finished(1, "extract_file") /\ ~OnClosedFile(1)
     /\ \E i \in 1..Len(files) : files[i].key = ClaimKey(th[1].arg)) =>
        /\ th[1].raised = "none"
        /\ (/\ RecordOf(1).sha_hash \in DOMAIN aarc_table
            /\ aarc_table[RecordOf(1).sha_hash].block_index
                  >= Len(archive_blocks)) =>
              th[1].val = None

\* C30: a call of get_hierarchy_depth never counts more steps up than the
\* skeleton has bones, neither while it runs nor in what it returns; a call
\* that keeps to this leaves its loop after at most that many iterations.
C30_DepthIsAtMostBoneCount ==
    result.op = "get_hierarchy_depth" =>
        result.depth <= Len(result.bones)

====
